---- MODULE Spec2Model ----
(***************************************************************************)
(* A model of bedrock-web-pouch-edv: the PouchDB collections, the          *)
(* insertOne / updateOne pseudo-uniqueness plugins, and the storage APIs   *)
(* layered on them (docs, chunks, ConfigStorage, secrets, PouchTransport,  *)
(* PouchEdvClient).                                                        *)
(*                                                                         *)
(* Every API call is an async function: it runs atomically from one await  *)
(* of a database request to the next.  A caller p is therefore a small     *)
(* state machine, call[p], whose pc names the database request it is about *)
(* to issue; the code that runs between two requests (building records,    *)
(* catching and translating errors) is part of the step that ends at the   *)
(* next request.                                                           *)
(***************************************************************************)
EXTENDS Integers, Sequences, FiniteSets, TLC

\* ------------------------------------------------------------------ bounds
\* calls started in one behaviour
MaxCalls == 3
\* largest sequence number a caller passes is MaxSeq + 1
MaxSeq == 1

Procs == {1, 2}
MaxCallers == 2
Callers == 1 .. MaxCallers
EdvIds == {"e1", "e2"}
DocIds == {"d1", "d2"}

\* ------------------------------------------------------------- collections
DOC_COLLECTION == "edv-storage-doc"
CHUNK_COLLECTION == "edv-storage-chunk"
CONFIG_COLLECTION == "edv-storage-config"
SECRET_COLLECTION == "edv-storage-secret"
Collections ==
  {DOC_COLLECTION, CHUNK_COLLECTION, CONFIG_COLLECTION, SECRET_COLLECTION}

VARIABLES
  db,      \* db[coll][_id]: the PouchDB record stored under _id, with its revision
  call,    \* call[p]: the API call caller p is running, or the last one it finished
  ncalls,  \* calls started so far
  _client, \* _client[m]: the database handle module m keeps (0: undefined);
           \* for secrets, _storage.client
  _storage,\* secrets.js: whether _storage holds its ConfigStorage
  handles, \* handles[m]: database handles constructed so far for m's collection
  jobs,    \* the promise jobs waiting to run, first in first out
  io,      \* the database requests in flight
  loader,  \* loader[p]: where caller p is in its `await initialize()`
  _purgeOp,\* chunks.js: whether _purgeOp holds the promise of a purge
  purges   \* purge() calls on the chunk collection: running now, started so far

\* the state of the modules and of the callers of initialize
loading == <<_client, _storage, handles, jobs, io, loader>>

\* the state of the purge of the chunk collection
purging == <<_purgeOp, purges>>

vars == <<db, call, ncalls, loading, purging>>

\* ---------------------------------------------------------------- PouchDB
\* A stored revision.  rev = 0: no record was ever stored under the _id.
NoData == [none |-> TRUE]
Absent == [rev |-> 0, deleted |-> FALSE, data |-> NoData]
\* `undefined`: what a find() that matches nothing destructures to
NoHit == [id |-> <<>>, rev |-> 0]

IsLive(r) == r.rev > 0 /\ ~r.deleted

\* pouchdb-find selectors used by the library
ById(id) == [k |-> "_id", id |-> id]
ByIdSeq(id, path, seq) == [k |-> "_id+sequence", id |-> id, path |-> path, seq |-> seq]
ByUnique(edv, attrs) == [k |-> "uniqueAttributes.$in", localEdvId |-> edv, attrs |-> attrs]

Matches(sel, id, data) ==
  CASE sel.k = "_id" -> id = sel.id
    [] sel.k = "_id+sequence" ->
         /\ id = sel.id
         /\ sel.path \in DOMAIN data
         /\ data[sel.path].sequence = sel.seq
    [] sel.k = "uniqueAttributes.$in" ->
         /\ data.localEdvId = sel.localEdvId
         /\ "uniqueAttributes" \in data.has
         /\ data.uniqueAttributes \cap sel.attrs # {}
    [] sel.k = "attributes.$or.$all" ->
         /\ data.localEdvId = sel.localEdvId
         /\ "attributes" \in data.has
         /\ \E all \in sel.or : all \subseteq data.attributes
    [] sel.k = "attributeNames.$all" ->
         /\ data.localEdvId = sel.localEdvId
         /\ "attributeNames" \in data.has
         /\ sel.all \subseteq data.attributeNames
    [] OTHER -> FALSE

\* find(): the live (not tombstoned) records a selector matches
Find(store, sel) ==
  {id \in DOMAIN store : IsLive(store[id]) /\ Matches(sel, id, store[id].data)}

\* put(): accepted unless the revision is stale (HTTP 409).  A new document
\* and a document written over a tombstone need no _rev.
PutAccepted(store, id, rev) ==
  LET cur == store[id] IN
  IF cur.rev = 0 THEN rev = 0
  ELSE IF cur.deleted THEN rev \in {0, cur.rev}
  ELSE rev = cur.rev

PutResult(store, id, deleted, data) ==
  [store EXCEPT ![id] = [rev |-> store[id].rev + 1, deleted |-> deleted, data |-> data]]

\* _getExisting: find({selector, limit: 1}); with several matches the engine
\* may hand back any one of them
_getExisting(store, sel) ==
  IF Find(store, sel) = {} THEN {NoHit}
  ELSE {[id |-> id, rev |-> store[id].rev] : id \in Find(store, sel)}

\* a record as find() hands it back: its fields with _id and _rev
Fetched(store, id) ==
  [_id |-> id, _rev |-> store[id].rev, deleted |-> FALSE, data |-> store[id].data]

\* Promise.all over the uniqueness constraints: one result per constraint
RECURSIVE AllExisting(_, _)
AllExisting(store, cs) ==
  IF cs = <<>> THEN {<<>>}
  ELSE {<<h>> \o rest : h \in _getExisting(store, Head(cs)),
                        rest \in AllExisting(store, Tail(cs))}

\* ------------------------------------------------------------------- calls
Idle ==
  [op |-> "idle", pc |-> "done", key |-> <<>>, args |-> NoData, coll |-> "",
   doc |-> NoData, phase |-> "", local |-> NoData,
   query |-> NoData, upsert |-> FALSE, ucs |-> <<>>, existing |-> NoHit,
   result |-> [kind |-> "none", message |-> "", value |-> NoData],
   pre |-> NoData, prev |-> NoData]

Ok == [kind |-> "ok", message |-> "", value |-> NoData]
Value(v) == [kind |-> "ok", message |-> "", value |-> v]
Err(kind, message) == [kind |-> kind, message |-> message, value |-> NoData]
\* an error carrying further properties
ErrWith(kind, message, value) == [kind |-> kind, message |-> message, value |-> value]

\* what a finished call leaves for the next one to refer to
Summary(c) == [op |-> c.op, key |-> c.key, kind |-> c.result.kind]

Resting(p) == call[p].pc = "done"

\* a new call of p: its arguments, and the database as it is when it starts
Begin(p, op, key, args) ==
  [Idle EXCEPT !.op = op, !.key = key, !.args = args, !.pre = db,
               !.prev = Summary(call[p])]

Done(c, result) == [c EXCEPT !.pc = "done", !.result = result]

\* ----------------------------------------------------------------- docs.js
\* an _id that files every vault's documents under one vault
_createIdOneVault(localEdvId, docId) == <<"e1", docId>>

\* `${localEdvId}:${docId}`; document ids hold no colon, so the pair is
\* recovered from the string
_createId(localEdvId, docId) == <<localEdvId, docId>>

parseLocalId(id) == id

\* index arrays that take every attribute for a unique one
_buildAttributesIndexAllUnique(doc) ==
  [attributes |-> {<<a.hmac, a.name, a.value>> : a \in doc.indexed},
   attributeNames |-> {<<a.hmac, a.name>> : a \in doc.indexed},
   uniqueAttributes |-> {<<a.hmac, a.name, a.value>> : a \in doc.indexed}]

\* the three top-level index arrays built from doc.indexed
_buildAttributesIndex(doc) ==
  [attributes |-> {<<a.hmac, a.name, a.value>> : a \in doc.indexed},
   attributeNames |-> {<<a.hmac, a.name>> : a \in doc.indexed},
   uniqueAttributes |->
     {<<a.hmac, a.name, a.value>> : a \in {b \in doc.indexed : b.unique}}]

_createRecord(edvId, doc) ==
  LET localEdvId == parseLocalId(edvId)
      idx == _buildAttributesIndex(doc)
      has == {f \in {"attributes", "attributeNames", "uniqueAttributes"} :
                idx[f] # {}}
  IN [localEdvId |-> localEdvId,
      record |-> [_id |-> _createId(localEdvId, doc.id),
                  deleted |-> FALSE,
                  data |-> [localEdvId |-> localEdvId, doc |-> doc, has |-> has,
                            attributes |-> idx.attributes,
                            attributeNames |-> idx.attributeNames,
                            uniqueAttributes |-> idx.uniqueAttributes]],
      uniqueConstraints |->
        IF idx.uniqueAttributes # {}
        THEN <<ByUnique(localEdvId, idx.uniqueAttributes)>>
        ELSE <<>>]

\* docs.upsert with a catch block that rethrows every error as it is
UpsertCatchRethrow(c, r) == Err(r.kind, r.message)

\* docs.upsert's catch block
UpsertCatch(c, r) ==
  IF r.kind = "ConstraintError"
  THEN IF r.existing = NoHit
       THEN \* e.existing is undefined: reading e.existing._id throws
            Err("TypeError", "Cannot read properties of undefined")
       ELSE IF r.existing.id = c.doc._id
       THEN Err("InvalidStateError",
                "Could not update document. Sequence does not match.")
       ELSE Err("ConstraintError", r.message)
  ELSE Err(r.kind, r.message)

\* docs.insert: `return result.record`, or insertOne's error
DocsInsertResult(r) ==
  IF r.kind = "ok" THEN Value(r.record) ELSE Err(r.kind, r.message)

\* docs.upsert: `return result.record`, or the error through the catch block
DocsUpsertResult(c, r) ==
  IF r.kind = "ok" THEN Value(r.record) ELSE UpsertCatch(c, r)

\* --------------------------------------------------------------- chunks.js
\* _createId({localEdvId, docId, index})
ChunkId(localEdvId, docId, index) == <<localEdvId, docId, index>>

\* the chunk's record: {_id, localEdvId, docId, chunk}
ChunkRecord(edvId, docId, chunk) ==
  [_id |-> ChunkId(parseLocalId(edvId), docId, chunk.index),
   deleted |-> FALSE,
   data |-> [localEdvId |-> parseLocalId(edvId), docId |-> docId, chunk |-> chunk]]

\* upsert's updateOne request
ChunkUpdateOne(c) ==
  LET record == ChunkRecord(c.args.edvId, c.args.docId, c.args.chunk) IN
  [c EXCEPT !.pc = "updateOne.find", !.coll = CHUNK_COLLECTION,
            !.doc = record, !.query = ById(record._id), !.upsert = TRUE]

\* upsert that does not compare the chunk's sequence with the document's
GetDocSettledNoCheck(c, found, doc) ==
  IF ~found
  THEN Done(c, Err("NotFoundError", "Document not found."))
  ELSE ChunkUpdateOne(c)

\* upsert, once getDoc has settled: the chunk must be on par with the document
GetDocSettled(c, found, doc) ==
  IF ~found
  THEN Done(c, Err("NotFoundError", "Document not found."))
  ELSE IF c.args.chunk.sequence # doc.sequence
  THEN Done(c, ErrWith("InvalidStateError",
         "Could not update document chunk. Sequence does not match the associated document.",
         [expected |-> doc.sequence, actual |-> c.args.chunk.sequence]))
  ELSE ChunkUpdateOne(c)

\* upsert without its catch block: every error of updateOne is rethrown
ChunksUpsertResultNoCatch(c, r) ==
  IF r.kind = "ok" THEN Value(r.record) ELSE Err(r.kind, r.message)

\* upsert's catch block, and its return value
ChunksUpsertResult(c, r) ==
  IF r.kind = "ok" THEN Value(r.record)
  ELSE IF r.kind = "ConstraintError"
  THEN IF r.existing = NoHit
       THEN Err("TypeError", "Cannot read properties of undefined")
       ELSE IF r.existing.id = c.doc._id
       THEN Value(r.existing)
       ELSE Err(r.kind, r.message)
  ELSE Err(r.kind, r.message)

\* ------------------------------------------------------- PouchTransport.js
\* insert's catch block
TransportInsertCatch(res) ==
  IF res.kind = "ConstraintError"
  THEN Err("DuplicateError", "Duplicate error.")
  ELSE IF res.kind = "ok" THEN Ok
  ELSE res

\* update: `await docs.upsert(...)`, nothing is returned
TransportUpdateResult(res) == IF res.kind = "ok" THEN Ok ELSE res

\* PouchEdvClient.delete: EdvClient.delete resolves to true once
\* transport.update({encrypted}) has resolved
ClientDeleteResult(res) == IF res.kind = "ok" THEN Value(TRUE) ELSE res

\* find: {documents} or {count}, from the records docs.find resolved with
TransportFindResult(query, records) ==
  IF query.count
  THEN Value([count |-> Cardinality(records)])
  ELSE Value([documents |-> {r.doc : r \in records}])

\* --------------------------------------------- helpers.js, Kek.js, Hmac.js
\* Byte strings are symbolic: a record of what the bytes are, with their
\* length in `size`.  A thrown error is [thrown |-> message].
Thrown(message) == [thrown |-> message]
IsThrown(x) == "thrown" \in DOMAIN x
Null == [null |-> TRUE]

\* multihashEncode({data}): header bytes [codec, data.length], then the data
multihashEncode(data) ==
  IF data.size >= 128
  THEN Thrown("\"data.length\" must be less than 128.")
  ELSE [codec |-> 0, length |-> data.size, data |-> data]

\* multihashDecode({expectedSize, encoded}): header check, then size check
multihashDecode(expectedSize, encoded) ==
  IF expectedSize >= 128
  THEN Thrown("\"data.length\" must be less than 128.")
  ELSE IF encoded.codec # 0 \/ encoded.length # expectedSize
  THEN Thrown("Multibase value does not have expected header.")
  ELSE IF encoded.data.size # expectedSize
  THEN Thrown("Actual decoded data size is not as expected.")
  ELSE encoded.data

\* getRandomBytes(n): the bytes drawn by the call numbered nonce
getRandomBytes(n, nonce, use) ==
  [t |-> "random", size |-> n, nonce |-> nonce, use |-> use]

\* pbkdf2.deriveBits: 256 bits from the password and the salt
deriveBits(password, salt) ==
  [t |-> "pbkdf2", size |-> 32, password |-> password, salt |-> salt]

\* AES-KW: the wrapped key is 8 bytes longer than the key
wrapKey(kek, unwrappedKey) ==
  [t |-> "aes-kw", size |-> unwrappedKey.size + 8, kek |-> kek,
   key |-> unwrappedKey]

\* crypto.subtle.unwrapKey: rejects unless the KEK is the wrapping one
subtleUnwrapKey(kek, wrappedKey) ==
  IF wrappedKey.kek = kek
  THEN wrappedKey.key
  ELSE Thrown("OperationError")

\* Kek.unwrapKey without its try / catch
unwrapKeyNoCatch(kek, wrappedKey) == subtleUnwrapKey(kek, wrappedKey)

\* Kek.unwrapKey: null when unwrapping fails
unwrapKey(kek, wrappedKey) ==
  IF IsThrown(subtleUnwrapKey(kek, wrappedKey))
  THEN Null
  ELSE subtleUnwrapKey(kek, wrappedKey)

\* Hmac.sign: HMAC-SHA-256 of the data under the key
sign(key, data) == [t |-> "hmac", size |-> 32, key |-> key, data |-> data]

\* -------------------------------------------------------------- secrets.js
UNWRAPPED_KAK_SIZE == 72
WRAPPED_KAK_SIZE == 80
wrappedKeySize == 40
saltSize == 16
\* the key derivation key Hmac.generate() makes
KDK_SIZE == 32

CipherVersions == {"recommended", "fips"}
Passwords == {"pw", "invalid"}

_deriveKek(password, salt) == [t |-> "kek", secret |-> deriveBits(password, salt)]

\* the exported P-256 key pair, set into a buffer of UNWRAPPED_KAK_SIZE bytes
KakBuffer(nonce) ==
  [t |-> "p256", size |-> UNWRAPPED_KAK_SIZE,
   secretKey |-> getRandomBytes(32, nonce, "p256"),
   publicKey |-> [t |-> "p256-public", size |-> 33, nonce |-> nonce]]

\* _createSecret that never stores a wrapped key agreement key
_createSecretDerivedOnly(kdk, password, cipherVersion, nonce) ==
  LET salt == getRandomBytes(saltSize, nonce, "salt")
      kek == _deriveKek(password, salt) IN
  [kek |-> kek,
   secret |-> [version |-> "1", salt |-> multihashEncode(salt),
               wrappedKey |-> multihashEncode(wrapKey(kek, kdk)),
               wrappedKeyAgreementKey |-> NoData]]

\* _createSecret that wraps a P-256 key agreement key whatever the cipher
\* version
_createSecretAlwaysWrapped(kdk, password, cipherVersion, nonce) ==
  LET salt == getRandomBytes(saltSize, nonce, "salt")
      kek == _deriveKek(password, salt) IN
  [kek |-> kek,
   secret |-> [version |-> "1", salt |-> multihashEncode(salt),
               wrappedKey |-> multihashEncode(wrapKey(kek, kdk)),
               wrappedKeyAgreementKey |->
                 multihashEncode(wrapKey(kek, KakBuffer(nonce)))]]

\* _createSecret; wrappedKeyAgreementKey = NoData when the property is not set
_createSecret(kdk, password, cipherVersion, nonce) ==
  LET salt == getRandomBytes(saltSize, nonce, "salt")
      kek == _deriveKek(password, salt) IN
  [kek |-> kek,
   secret |-> [version |-> "1", salt |-> multihashEncode(salt),
               wrappedKey |-> multihashEncode(wrapKey(kek, kdk)),
               wrappedKeyAgreementKey |->
                 IF cipherVersion = "fips"
                 THEN multihashEncode(wrapKey(kek, KakBuffer(nonce)))
                 ELSE NoData]]

\* _deriveKeys({kdk, kek, secret})
_deriveKeys(kdk, kek, secret) ==
  LET hmac == [id |-> NoData, type |-> "Sha256HmacKey2019",
               key |-> sign(kdk, "hmac")] IN
  IF secret.wrappedKeyAgreementKey # NoData
  THEN LET wrapped == multihashDecode(WRAPPED_KAK_SIZE, secret.wrappedKeyAgreementKey)
           unwrappedKey == unwrapKey(kek, wrapped) IN
       IF IsThrown(wrapped) THEN wrapped
       ELSE IF unwrappedKey = Null
       THEN Thrown("Invalid stored key agreement key.")
       ELSE [hmac |-> hmac,
             keyAgreementKey |->
               [id |-> NoData, type |-> "Multikey",
                key |-> [secretKey |-> unwrappedKey.secretKey,
                         publicKey |-> unwrappedKey.publicKey]],
             cipherVersion |-> "fips"]
  ELSE [hmac |-> hmac,
        keyAgreementKey |->
          [id |-> NoData, type |-> "X25519KeyAgreementKey2020",
           key |-> sign(kdk, "keyAgreementKey")],
        cipherVersion |-> "recommended"]

\* the keys with their ids set from the secret's configuration
WithIds(keys, config) ==
  [keys EXCEPT !.hmac.id = config.hmacId,
               !.keyAgreementKey.id = config.keyAgreementKeyId]

\* uuid(): the k-th identifier drawn by the call numbered nonce
uuid(nonce, k) == ToString(nonce) \o "-" \o ToString(k)

\* secrets.generate({id, password, cipherVersion})
generate(id, password, cipherVersion, nonce) ==
  LET kdk == getRandomBytes(KDK_SIZE, nonce, "kdk")
      created == _createSecret(kdk, password, cipherVersion, nonce)
      keys == _deriveKeys(kdk, created.kek, created.secret)
      config == [id |-> id, hmacId |-> "urn:uuid:" \o uuid(nonce, 1),
                 keyAgreementKeyId |-> "urn:uuid:" \o uuid(nonce, 2),
                 secret |-> created.secret, sequence |-> 0] IN
  IF IsThrown(keys) THEN keys
  ELSE [hmac |-> WithIds(keys, config).hmac,
        keyAgreementKey |-> WithIds(keys, config).keyAgreementKey,
        config |-> config]

\* secrets.decrypt({config, password}): the keys, Null, or a thrown error
decrypt(config, password) ==
  LET secret == config.secret
      salt == multihashDecode(saltSize, secret.salt)
      kek == _deriveKek(password, salt)
      wrappedKey == multihashDecode(wrappedKeySize, secret.wrappedKey)
      unwrappedKey == unwrapKey(kek, wrappedKey)
      keys == _deriveKeys(unwrappedKey, kek, secret) IN
  IF IsThrown(salt) THEN salt
  ELSE IF IsThrown(wrappedKey) THEN wrappedKey
  ELSE IF IsThrown(unwrappedKey) THEN unwrappedKey
  ELSE IF unwrappedKey = Null THEN Null
  ELSE IF IsThrown(keys) THEN keys
  ELSE WithIds(keys, config)

\* a call settling with what an operator computed
Computed(x) == IF IsThrown(x) THEN Err("Error", x.thrown) ELSE Value(x)

\* ------------------------------------------------------- ConfigStorage.js
\* update's query: the stored configuration must carry the previous sequence
UpdateQueryAnySequence(config) == ById(<<config.id>>)

UpdateQuery(config) == ByIdSeq(<<config.id>>, "config", config.sequence - 1)

\* update: updateOne resolved with false, or with the written record
ConfigUpdateResult(r) ==
  IF r.kind = "false"
  THEN Err("InvalidStateError",
           "Could not update configuration. Sequence does not match or configuration does not exist.")
  ELSE IF r.kind = "ok" THEN Value(r.record) ELSE Err(r.kind, r.message)

\* ------------------------------------------------------- PouchEdvClient.js
\* `undefined`, for an argument that is not given
undefined == "<undefined>"

\* the record of a configuration: {_id: config.id, config}
ConfigRecord(config) ==
  [_id |-> <<config.id>>, deleted |-> FALSE, data |-> [config |-> config]]

\* createEdv: config with hmac / keyAgreementKey taken from the secret's keys
Enrich(config, keys) ==
  [config EXCEPT
     !.hmac = [id |-> keys.hmac.id, type |-> keys.hmac.type],
     !.keyAgreementKey =
       [id |-> keys.keyAgreementKey.id, type |-> keys.keyAgreementKey.type]]

\* createEdv from `assert.edvConfig(config)` on: transport.createEdv, which
\* is edvs.insert up to its insertOne request
InsertConfig(c, config) ==
  IF config.keyAgreementKey = NoData
  THEN Done(c, Err("TypeError", "\"config.keyAgreementKey\" must be an object."))
  ELSE IF config.hmac = NoData
  THEN Done(c, Err("TypeError", "\"config.hmac\" must be an object."))
  ELSE IF config.sequence # 0
  THEN Done(c, Err("Error", "Configuration sequence must be \"0\"."))
  ELSE [c EXCEPT !.pc = "insertOne.check", !.phase = "edvs.insert",
                 !.coll = CONFIG_COLLECTION, !.doc = ConfigRecord(config)]

\* _lazyCreateSecret, once secrets.insert has settled with r
LazyCreateSecretInserted(c, r) ==
  IF r.kind = "ok"
  THEN InsertConfig(c, Enrich(c.args.config, c.local))
  ELSE IF r.kind = "ConstraintError"
  THEN [c EXCEPT !.pc = "edvs.get", !.coll = CONFIG_COLLECTION]
  ELSE Done(c, Err(r.kind, r.message))

\* new PouchEdvClient({hmac, id, keyAgreementKey, keyResolver, cipherVersion}),
\* the key resolver answering with the key under edvConfig.controller
Client(id, keys, edvConfig) ==
  [id |-> id, hmac |-> keys.hmac, keyAgreementKey |-> keys.keyAgreementKey,
   cipherVersion |-> keys.cipherVersion,
   keyResolver |-> [id |-> keys.keyAgreementKey.id,
                    controller |-> edvConfig.controller]]

\* createEdv's `{config: newConfig, edvClient}`: with a password, the client
\* made of the secret's keys and of the cipherVersion createEdv was called
\* with; keys is what _lazyCreateSecret handed back
CreatedEdv(c) ==
  [config |-> c.doc.data.config, keys |-> c.local,
   edvClient |->
     IF c.args.password # undefined
     THEN Client(c.args.config.id,
                 [hmac |-> c.local.hmac,
                  keyAgreementKey |-> c.local.keyAgreementKey,
                  cipherVersion |-> c.args.cipherVersion],
                 c.doc.data.config)
     ELSE NoData]

\* PouchTransport.createEdv without its catch block
CreateEdvInsertedNoCatch(c, r) ==
  IF r.kind = "ok"
  THEN Done(c, Value(CreatedEdv(c)))
  ELSE Done(c, Err(r.kind, r.message))

\* PouchTransport.createEdv, once edvs.insert has settled with r
CreateEdvInserted(c, r) ==
  IF r.kind = "ok"
  THEN Done(c, Value(CreatedEdv(c)))
  ELSE IF r.kind = "ConstraintError"
  THEN Done(c, Err("DuplicateError", "Duplicate error."))
  ELSE Done(c, Err(r.kind, r.message))

\* _lazyCreateSecret that never looks for the vault configuration
EdvsGetSettledNoProbe(c, record) == [c EXCEPT !.pc = "secrets.get"]

\* _lazyCreateSecret, once edvs.get has found record (or nothing)
EdvsGetSettled(c, record) ==
  IF record # NoHit
  THEN Done(c, Err("DuplicateError", "Duplicate EDV configuration."))
  ELSE [c EXCEPT !.pc = "secrets.get"]

\* _lazyCreateSecret going on with the keys it generated itself
ReusedKeysGenerated(c, config) == c.local

\* _lazyCreateSecret: the keys of the stored secret, unlocked
ReusedKeys(c, config) == decrypt(config, c.args.password)

\* _lazyCreateSecret, once secrets.get has resolved with the stored config
SecretsGetSettled(c, config) ==
  LET result == ReusedKeys(c, config) IN
  IF IsThrown(result) THEN Done(c, Err("Error", result.thrown))
  ELSE IF result = Null
  THEN Done(c, Err("Error",
         "Secret already exists for EDV ID (" \o c.args.config.id \o
         ") but password to unlock it is invalid."))
  ELSE InsertConfig([c EXCEPT !.local = result],
                    Enrich(c.args.config, result))

\* ----------------------------------------------------- returning to the API
\* The API function's code that runs once insertOne / updateOne has settled
\* with r = [kind, message, existing].
Return(c, r) ==
  CASE c.op = "docs.insert" -> Done(c, DocsInsertResult(r))
    [] c.op = "docs.upsert" -> Done(c, DocsUpsertResult(c, r))
    [] c.op = "transport.insert" ->
         Done(c, TransportInsertCatch(DocsInsertResult(r)))
    [] c.op = "transport.update" ->
         Done(c, TransportUpdateResult(DocsUpsertResult(c, r)))
    [] c.op = "client.delete" ->
         Done(c, ClientDeleteResult(
                   TransportUpdateResult(DocsUpsertResult(c, r))))
    [] c.op = "ConfigStorage.insert" -> Done(c, DocsInsertResult(r))
    [] c.op = "chunks.upsert" -> Done(c, ChunksUpsertResult(c, r))
    [] c.op = "createEdv" /\ c.phase = "secrets.insert" ->
         LazyCreateSecretInserted(c, r)
    [] c.op = "createEdv" /\ c.phase = "edvs.insert" -> CreateEdvInserted(c, r)
    [] c.op = "ConfigStorage.update" -> Done(c, ConfigUpdateResult(r))
    [] OTHER -> Done(c, Err(r.kind, r.message))

Settled(kind, message, existing) ==
  [kind |-> kind, message |-> message, existing |-> existing]

\* insertOne / updateOne resolving with {...result, record}, the record being
\* {...doc, _id: result.id, _rev: result.rev}; store is the collection as the
\* put finds it
Resolved(c, store) ==
  [kind |-> "ok", message |-> "", existing |-> NoHit,
   record |-> [_id |-> c.doc._id, _rev |-> store[c.doc._id].rev + 1,
               deleted |-> c.doc.deleted, data |-> c.doc.data]]

\* -------------------------------------------------------------- pouchdb.js
\* insertOne appends the implicit `_id` constraint to the caller's
Constraints(c) == c.ucs \o <<ById(c.doc._id)>>

\* insertOne: check all uniqueness constraints
insertOneCheck(p) ==
  LET c == call[p] IN
  /\ c.pc = "insertOne.check"
  /\ \E results \in AllExisting(db[c.coll], Constraints(c)) :
       LET existing == results[1] IN
       call' = [call EXCEPT ![p] =
         IF existing # NoHit
         THEN Return(c, Settled("ConstraintError",
                "Could not insert document; uniqueness constraint violation.",
                existing))
         ELSE [c EXCEPT !.pc = "insertOne.put"]]
  /\ UNCHANGED <<db, ncalls, loading, purging>>

\* a put that judges the uniqueness constraints again, in one step with the
\* write
insertOnePutChecked(p) ==
  LET c == call[p] IN
  /\ c.pc = "insertOne.put"
  /\ IF \E i \in DOMAIN Constraints(c) : Find(db[c.coll], Constraints(c)[i]) # {}
     THEN /\ call' = [call EXCEPT ![p].pc = "insertOne.check"]
          /\ db' = db
     ELSE /\ db' = [db EXCEPT ![c.coll] =
                      PutResult(@, c.doc._id, c.doc.deleted, c.doc.data)]
          /\ call' = [call EXCEPT ![p] = Return(c, Resolved(c, db[c.coll]))]
  /\ UNCHANGED <<ncalls, loading, purging>>

\* insertOne: put(doc); a 409 restarts the loop
insertOnePut(p) ==
  LET c == call[p] IN
  /\ c.pc = "insertOne.put"
  /\ IF PutAccepted(db[c.coll], c.doc._id, 0)
     THEN /\ db' = [db EXCEPT ![c.coll] =
                      PutResult(@, c.doc._id, c.doc.deleted, c.doc.data)]
          /\ call' = [call EXCEPT ![p] = Return(c, Resolved(c, db[c.coll]))]
     ELSE /\ call' = [call EXCEPT ![p].pc = "insertOne.check"]
          /\ db' = db
  /\ UNCHANGED <<ncalls, loading, purging>>

\* updateOne: get matching record
updateOneFind(p) ==
  LET c == call[p] IN
  /\ c.pc = "updateOne.find"
  /\ \E existing \in _getExisting(db[c.coll], c.query) :
       call' = [call EXCEPT ![p] =
         IF existing = NoHit
         THEN IF ~c.upsert
              THEN Return(c, Settled("false", "", NoHit))
              ELSE [c EXCEPT !.pc = "insertOne.check"]
         ELSE [c EXCEPT !.pc = "updateOne.check", !.existing = existing]]
  /\ UNCHANGED <<db, ncalls, loading, purging>>

\* the first constraint result that is not the update target, if any
RECURSIVE FirstOther(_, _)
FirstOther(existing, records) ==
  IF records = <<>> THEN <<>>
  ELSE IF Head(records).id # existing.id THEN <<Head(records)>>
  ELSE FirstOther(existing, Tail(records))

\* updateOne: check all uniqueness constraints
updateOneCheck(p) ==
  LET c == call[p] IN
  /\ c.pc = "updateOne.check"
  /\ \E existingRecords \in AllExisting(db[c.coll], Constraints(c)) :
       LET other == FirstOther(c.existing, existingRecords) IN
       call' = [call EXCEPT ![p] =
         IF other # <<>>
         THEN Return(c, Settled("ConstraintError",
                "Could not update document; uniqueness constraint violation.",
                other[1]))
         ELSE [c EXCEPT !.pc = "updateOne.put"]]
  /\ UNCHANGED <<db, ncalls, loading, purging>>

\* a put that keeps the index arrays of the stored revision next to the new
\* ones
updateOnePutMerged(p) ==
  LET c == call[p]
      old == db[c.coll][c.doc._id].data
      merged == IF c.coll = DOC_COLLECTION
                THEN [c.doc.data EXCEPT
                        !.has = @ \cup old.has,
                        !.attributes = @ \cup old.attributes,
                        !.attributeNames = @ \cup old.attributeNames,
                        !.uniqueAttributes = @ \cup old.uniqueAttributes]
                ELSE c.doc.data IN
  /\ c.pc = "updateOne.put"
  /\ IF PutAccepted(db[c.coll], c.doc._id, c.existing.rev)
     THEN /\ db' = [db EXCEPT ![c.coll] =
                      PutResult(@, c.doc._id, c.doc.deleted, merged)]
          /\ call' = [call EXCEPT ![p] = Return(c, Resolved(c, db[c.coll]))]
     ELSE /\ call' = [call EXCEPT ![p].pc = "updateOne.find"]
          /\ db' = db
  /\ UNCHANGED <<ncalls, loading, purging>>

\* updateOne: put({_id: existing._id, _rev: existing._rev, ...doc})
updateOnePut(p) ==
  LET c == call[p] IN
  /\ c.pc = "updateOne.put"
  /\ IF PutAccepted(db[c.coll], c.doc._id, c.existing.rev)
     THEN /\ db' = [db EXCEPT ![c.coll] =
                      PutResult(@, c.doc._id, c.doc.deleted, c.doc.data)]
          /\ call' = [call EXCEPT ![p] = Return(c, Resolved(c, db[c.coll]))]
     ELSE /\ call' = [call EXCEPT ![p].pc = "updateOne.find"]
          /\ db' = db
  /\ UNCHANGED <<ncalls, loading, purging>>

\* --------------------------------------------------------- docs.js: the API
\* the documents callers pass: doc.indexed holds blinded attributes
Attr(name, value, unique) ==
  [hmac |-> "urn:hmac", name |-> name, value |-> value, unique |-> unique]

Indexed ==
  {{},
   {Attr("n1", "a", TRUE)},
   {Attr("n1", "b", TRUE)},
   {Attr("n1", "a", FALSE)},
   {Attr("n1", "a", TRUE), Attr("n1", "b", TRUE)},
   {Attr("n1", "a", TRUE), Attr("n2", "c", FALSE)},
   {Attr("n1", "b", TRUE), Attr("n2", "c", FALSE)}}

Docs ==
  [id : DocIds, sequence : 0 .. MaxSeq + 1, indexed : Indexed]
\* new documents start at a sequence up to MaxSeq
NewDocs == {doc \in Docs : doc.sequence <= MaxSeq}
\* the vault the document calls work on
Vault == "e1"

\* docs.insert({edvId, doc})
DocsInsert(p, edvId, doc) ==
  /\ Resting(p)
  /\ ncalls < MaxCalls
  /\ LET r == _createRecord(edvId, doc) IN
     call' = [call EXCEPT ![p] =
       [Begin(p, "docs.insert", r.record._id, [edvId |-> edvId, doc |-> doc, deleted |-> FALSE])
          EXCEPT !.pc = "insertOne.check", !.coll = DOC_COLLECTION,
                 !.doc = r.record, !.ucs = r.uniqueConstraints]]
  /\ ncalls' = ncalls + 1
  /\ UNCHANGED <<db, loading, purging>>

\* docs.upsert({edvId, doc, deleted})
DocsUpsert(p, edvId, doc, deleted) ==
  /\ Resting(p)
  /\ ncalls < MaxCalls
  /\ LET r == _createRecord(edvId, doc)
         _id == _createId(r.localEdvId, doc.id) IN
     call' = [call EXCEPT ![p] =
       [Begin(p, "docs.upsert", _id, [edvId |-> edvId, doc |-> doc, deleted |-> deleted])
          EXCEPT !.pc = "updateOne.find", !.coll = DOC_COLLECTION,
                 !.doc = [r.record EXCEPT !.deleted = deleted],
                 !.query = ByIdSeq(_id, "doc", doc.sequence - 1),
                 !.upsert = TRUE, !.ucs = r.uniqueConstraints]]
  /\ ncalls' = ncalls + 1
  /\ UNCHANGED <<db, loading, purging>>

\* a query on the attribute names alone, whatever values `equals` asks for
createQueryAnyValue(edvId, edvQuery) ==
  [k |-> "attributeNames.$all", localEdvId |-> parseLocalId(edvId),
   all |-> {<<edvQuery.index, nv[1]>> : nv \in UNION edvQuery.equals}
             \cup {<<edvQuery.index, name>> : name \in edvQuery.has}]

\* docs.createQuery({edvId, edvQuery}): `limit` is not read
createQuery(edvId, edvQuery) ==
  LET localEdvId == parseLocalId(edvId) IN
  IF edvQuery.type = "equals"
  THEN [k |-> "attributes.$or.$all", localEdvId |-> localEdvId,
        or |-> {{<<edvQuery.index, nv[1], nv[2]>> : nv \in e} :
                  e \in edvQuery.equals}]
  ELSE [k |-> "attributeNames.$all", localEdvId |-> localEdvId,
        all |-> {<<edvQuery.index, name>> : name \in edvQuery.has}]

\* docs.find: _client.find({selector, ...query.options}), every match
\* (the collections of the model stay below PouchDB's default page of 25)
docsFind(p) ==
  LET c == call[p]
      records == {db[c.coll][id].data : id \in Find(db[c.coll], c.query)} IN
  /\ c.pc = "docs.find"
  /\ call' = [call EXCEPT ![p] = Done(c, TransportFindResult(c.args.query, records))]
  /\ UNCHANGED <<db, ncalls, loading, purging>>

\* the selector a caller hands to find: built by createQuery for queryEdvId
\* or, queryEdvId being undefined, written without a localEdvId
SelectorGiven(queryEdvId, edvQuery) ==
  IF queryEdvId = undefined
  THEN [createQuery(Vault, edvQuery) EXCEPT !.localEdvId = undefined]
  ELSE createQuery(queryEdvId, edvQuery)

\* find that puts edvId's vault into every selector
FindSelectorForced(edvId, selector) ==
  [selector EXCEPT !.localEdvId = parseLocalId(edvId)]

\* find: `if(!selector.localEdvId) selector = {localEdvId, ...selector}`
FindSelector(edvId, selector) ==
  IF selector.localEdvId = undefined
  THEN [selector EXCEPT !.localEdvId = parseLocalId(edvId)]
  ELSE selector

\* docs.find({edvId, query}): a selector that has a localEdvId is used as it
\* is, and edvId is not
DocsFind(p, edvId, queryEdvId, edvQuery) ==
  /\ Resting(p)
  /\ ncalls < MaxCalls
  /\ call' = [call EXCEPT ![p] =
       [Begin(p, "docs.find", <<edvId>>,
              [edvId |-> edvId, queryEdvId |-> queryEdvId, edvQuery |-> edvQuery])
          EXCEPT !.pc = "find", !.coll = DOC_COLLECTION,
                 !.query = FindSelector(edvId, SelectorGiven(queryEdvId, edvQuery))]]
  /\ ncalls' = ncalls + 1
  /\ UNCHANGED <<db, loading, purging>>

\* docs.find: _client.find({selector, ...query.options}); `return {records}`
findRecords(p) ==
  LET c == call[p] IN
  /\ c.pc = "find"
  /\ call' = [call EXCEPT ![p] =
       Done(c, Value([records |->
         {Fetched(db[c.coll], id) : id \in Find(db[c.coll], c.query)}]))]
  /\ UNCHANGED <<db, ncalls, loading, purging>>

\* documents with attributes blinded under two hmac keys
FindIndexed ==
  {{},
   {Attr("n1", "a", FALSE)},
   {Attr("n1", "b", FALSE)},
   {Attr("n1", "a", FALSE), Attr("n2", "c", FALSE)},
   {[hmac |-> "urn:hmac2", name |-> "n1", value |-> "a", unique |-> FALSE]}}
FindDocs == [id : DocIds, sequence : 0 .. 1, indexed : FindIndexed]

\* EDV queries given to createQuery: {index, equals | has}
FindQueries ==
  [index : {"urn:hmac", "urn:hmac2"}, type : {"equals"}, has : {{}},
   equals : {{{<<"n1", "a">>}}, {{<<"n1", "a">>, <<"n2", "c">>}},
             {{<<"n1", "b">>}, {<<"n2", "c">>}}}]
  \cup
  [index : {"urn:hmac", "urn:hmac2"}, type : {"has"}, has : {{"n1"}, {"n1", "n2"}},
   equals : {{}}]

\* ------------------------------------------------------- chunks.js: the API
\* chunks.upsert({edvId, docId, chunk})
ChunksUpsert(p, edvId, docId, chunk) ==
  /\ Resting(p)
  /\ ncalls < MaxCalls
  /\ call' = [call EXCEPT ![p] =
       [Begin(p, "chunks.upsert", ChunkId(parseLocalId(edvId), docId, chunk.index),
              [edvId |-> edvId, docId |-> docId, chunk |-> chunk])
          EXCEPT !.pc = "chunks.getDoc", !.coll = DOC_COLLECTION,
                 !.query = ById(_createId(parseLocalId(edvId), docId))]]
  /\ ncalls' = ncalls + 1
  /\ UNCHANGED <<db, loading, purging>>

\* chunks.upsert: getDoc({edvId, id: docId}), which is docs.get
chunksGetDoc(p) ==
  LET c == call[p] IN
  /\ c.pc = "chunks.getDoc"
  /\ \E record \in _getExisting(db[DOC_COLLECTION], c.query) :
       call' = [call EXCEPT ![p] =
         IF record = NoHit
         THEN GetDocSettled(c, FALSE, NoData)
         ELSE GetDocSettled(c, TRUE, db[DOC_COLLECTION][record.id].data.doc)]
  /\ UNCHANGED <<db, ncalls, loading, purging>>

\* the largest chunk index
MaxIndex == 1

\* the chunks callers pass
Chunks ==
  [index : 0 .. MaxIndex, offset : {0}, sequence : 0 .. MaxSeq + 1,
   jwe : {"jwe1", "jwe2"}]

\* documents without indexed attributes
PlainDocs == {doc \in Docs : doc.indexed = {}}

\* ------------------------------------------------ PouchTransport.js: the API
\* transport.insert({encrypted})
TransportInsert(p, edvId, encrypted) ==
  /\ Resting(p)
  /\ ncalls < MaxCalls
  /\ LET r == _createRecord(edvId, encrypted) IN
     call' = [call EXCEPT ![p] =
       [Begin(p, "transport.insert", r.record._id,
              [edvId |-> edvId, doc |-> encrypted])
          EXCEPT !.pc = "insertOne.check", !.coll = DOC_COLLECTION,
                 !.doc = r.record, !.ucs = r.uniqueConstraints]]
  /\ ncalls' = ncalls + 1
  /\ UNCHANGED <<db, loading, purging>>

\* transport.update({encrypted}): docs.upsert({edvId, doc: encrypted})
TransportUpdate(p, edvId, encrypted) ==
  /\ Resting(p)
  /\ ncalls < MaxCalls
  /\ LET r == _createRecord(edvId, encrypted)
         _id == _createId(r.localEdvId, encrypted.id) IN
     call' = [call EXCEPT ![p] =
       [Begin(p, "transport.update", _id, [edvId |-> edvId, doc |-> encrypted])
          EXCEPT !.pc = "updateOne.find", !.coll = DOC_COLLECTION,
                 !.doc = r.record,
                 !.query = ByIdSeq(_id, "doc", encrypted.sequence - 1),
                 !.upsert = TRUE, !.ucs = r.uniqueConstraints]]
  /\ ncalls' = ncalls + 1
  /\ UNCHANGED <<db, loading, purging>>

\* client.delete({doc}): EdvClient.delete encrypts the emptied document and
\* hands it to _deleteTransport.update({encrypted}), which calls
\* this.transport.update({encrypted, deleted: true}).  PouchTransport.update
\* takes {encrypted} alone and calls docs.upsert({edvId, doc: encrypted}),
\* whose `deleted` defaults to false.
ClientDelete(p, edvId, encrypted) ==
  /\ Resting(p)
  /\ ncalls < MaxCalls
  /\ LET r == _createRecord(edvId, encrypted)
         _id == _createId(r.localEdvId, encrypted.id) IN
     call' = [call EXCEPT ![p] =
       [Begin(p, "client.delete", _id, [edvId |-> edvId, doc |-> encrypted])
          EXCEPT !.pc = "updateOne.find", !.coll = DOC_COLLECTION,
                 !.doc = r.record,
                 !.query = ByIdSeq(_id, "doc", encrypted.sequence - 1),
                 !.upsert = TRUE, !.ucs = r.uniqueConstraints]]
  /\ ncalls' = ncalls + 1
  /\ UNCHANGED <<db, loading, purging>>

\* transport.find({query})
TransportFind(p, edvId, query) ==
  /\ Resting(p)
  /\ ncalls < MaxCalls
  /\ call' = [call EXCEPT ![p] =
       [Begin(p, "transport.find", <<edvId>>, [edvId |-> edvId, query |-> query])
          EXCEPT !.pc = "docs.find", !.coll = DOC_COLLECTION,
                 !.query = createQuery(edvId, query)]]
  /\ ncalls' = ncalls + 1
  /\ UNCHANGED <<db, loading, purging>>

\* the largest `limit` a query carries
MaxLimit == 2

\* EDV queries: {index, equals | has, count, limit}
Queries ==
  [index : {"urn:hmac"}, type : {"equals"}, has : {{}}, count : BOOLEAN,
   equals : {{{<<"n1", "a">>}}, {{<<"n2", "c">>}}}, limit : 1 .. MaxLimit]
  \cup
  [index : {"urn:hmac"}, type : {"has"}, has : {{"n2"}}, count : {FALSE},
   equals : {{}}, limit : 1 .. MaxLimit]

\* ------------------------------------------------ ConfigStorage.js: the API
\* ConfigStorage.insert({config}) without the check of config.sequence
ConfigInsertAnySequence(p, coll, config) ==
  /\ Resting(p)
  /\ ncalls < MaxCalls
  /\ call' = [call EXCEPT ![p] =
       [Begin(p, "ConfigStorage.insert", <<config.id>>, [config |-> config])
          EXCEPT !.coll = coll, !.pc = "insertOne.check",
                 !.doc = ConfigRecord(config)]]
  /\ ncalls' = ncalls + 1
  /\ UNCHANGED <<db, loading, purging>>

\* ConfigStorage.insert({config}) on the storage of collection coll
\* (edvs.insert for vault configurations, secrets.insert for secrets)
ConfigInsert(p, coll, config) ==
  /\ Resting(p)
  /\ ncalls < MaxCalls
  /\ LET b == [Begin(p, "ConfigStorage.insert", <<config.id>>, [config |-> config])
                 EXCEPT !.coll = coll] IN
     call' = [call EXCEPT ![p] =
       IF config.sequence # 0
       THEN Done(b, Err("Error", "Configuration sequence must be \"0\"."))
       ELSE [b EXCEPT !.pc = "insertOne.check", !.doc = ConfigRecord(config)]]
  /\ ncalls' = ncalls + 1
  /\ UNCHANGED <<db, loading, purging>>

\* ConfigStorage.update({config})
ConfigUpdate(p, coll, config) ==
  /\ Resting(p)
  /\ ncalls < MaxCalls
  /\ call' = [call EXCEPT ![p] =
       [Begin(p, "ConfigStorage.update", <<config.id>>, [config |-> config])
          EXCEPT !.pc = "updateOne.find", !.coll = coll,
                 !.doc = ConfigRecord(config), !.query = UpdateQuery(config),
                 !.upsert = FALSE]]
  /\ ncalls' = ncalls + 1
  /\ UNCHANGED <<db, loading, purging>>

\* the configurations callers pass to a storage
Configs == [id : {Vault}, sequence : 0 .. MaxSeq + 1, controller : {"c1", "c2"}]
NewConfigs == {config \in Configs : config.sequence <= 1 /\ config.controller = "c1"}
Storages == {CONFIG_COLLECTION, SECRET_COLLECTION}

\* ------------------------------------------------------ secrets.js: the API
\* secrets.generate({id, password, cipherVersion}); it reads no database
SecretsGenerate(p, id, password, cipherVersion) ==
  /\ Resting(p)
  /\ ncalls < MaxCalls
  /\ call' = [call EXCEPT ![p] =
       Done(Begin(p, "secrets.generate", <<id>>,
                  [id |-> id, password |-> password,
                   cipherVersion |-> cipherVersion]),
            Computed(generate(id, password, cipherVersion, ncalls + 1)))]
  /\ ncalls' = ncalls + 1
  /\ UNCHANGED <<db, loading, purging>>

\* secrets.decrypt({config, password}), of a configuration that some
\* secrets.generate call returned
SecretsDecrypt(p, q, password) ==
  /\ Resting(p)
  /\ ncalls < MaxCalls
  /\ call[q].op = "secrets.generate"
  /\ call[q].result.kind = "ok"
  /\ LET config == call[q].result.value.config IN
     call' = [call EXCEPT ![p] =
       Done(Begin(p, "secrets.decrypt", <<config.id>>,
                  [config |-> config, password |-> password]),
            Computed(decrypt(config, password)))]
  /\ ncalls' = ncalls + 1
  /\ UNCHANGED <<db, loading, purging>>

\* ----------------------------------------------- PouchEdvClient.js: the API
\* a check that lets a configuration with one of the two keys through
KeysGivenBoth(config) == config.hmac # NoData /\ config.keyAgreementKey # NoData

\* createEdv: `config.hmac || config.keyAgreementKey`
KeysGiven(config) == config.hmac # NoData \/ config.keyAgreementKey # NoData

\* PouchEdvClient.createEdv({config, password, cipherVersion})
CreateEdv(p, config, password, cipherVersion) ==
  /\ Resting(p)
  /\ ncalls < MaxCalls
  /\ LET b == Begin(p, "createEdv", <<config.id>>,
                    [config |-> config, password |-> password,
                     cipherVersion |-> cipherVersion])
         generated == generate(config.id, password, cipherVersion, ncalls + 1) IN
     call' = [call EXCEPT ![p] =
       IF password # undefined
       THEN IF KeysGiven(config)
            THEN Done(b, Err("Error",
                   "\"config\" must not have \"hmac\" or \"keyAgreementKey\" if these are to be populated using locally generated secrets."))
            ELSE [b EXCEPT !.pc = "insertOne.check", !.phase = "secrets.insert",
                           !.coll = SECRET_COLLECTION,
                           !.doc = ConfigRecord(generated.config),
                           !.local = [hmac |-> generated.hmac,
                                      keyAgreementKey |-> generated.keyAgreementKey,
                                      cipherVersion |-> cipherVersion]]
       ELSE InsertConfig(b, config)]
  /\ ncalls' = ncalls + 1
  /\ UNCHANGED <<db, loading, purging>>

\* _lazyCreateSecret: edvs.get({id})
edvsGet(p) ==
  LET c == call[p] IN
  /\ c.pc = "edvs.get"
  /\ \E record \in _getExisting(db[CONFIG_COLLECTION], ById(c.key)) :
       call' = [call EXCEPT ![p] = EdvsGetSettled(c, record)]
  /\ UNCHANGED <<db, ncalls, loading, purging>>

\* _lazyCreateSecret: secrets.get({id}), then secrets.decrypt
secretsGet(p) ==
  LET c == call[p] IN
  /\ c.pc = "secrets.get"
  /\ \E record \in _getExisting(db[SECRET_COLLECTION], ById(c.key)) :
       call' = [call EXCEPT ![p] =
         IF record = NoHit
         THEN Done(c, Err("NotFoundError", "Configuration not found."))
         ELSE SecretsGetSettled(c, db[SECRET_COLLECTION][record.id].data.config)]
  /\ UNCHANGED <<db, ncalls, loading, purging>>

\* fromLocalSecrets that makes the client without the vault's configuration
SecretLoadedNoConfig(c, config) ==
  LET result == decrypt(config, c.args.password) IN
  IF IsThrown(result) THEN Done(c, Err("Error", result.thrown))
  ELSE IF result = Null THEN Done(c, Err("Error", "Invalid password."))
  ELSE Done(c, Value(Client(config.id, result, [controller |-> undefined])))

\* fromLocalSecrets, once secrets.get has resolved with the stored config:
\* decrypt, then `await edvConfigPromise`
SecretLoaded(c, config) ==
  LET result == decrypt(config, c.args.password) IN
  IF IsThrown(result) THEN Done(c, Err("Error", result.thrown))
  ELSE IF result = Null THEN Done(c, Err("Error", "Invalid password."))
  ELSE [c EXCEPT !.pc = "fromLocalSecrets.edvs.get",
                 !.local = [keys |-> result, id |-> config.id]]

\* PouchEdvClient.fromLocalSecrets({edvId, password}): edvs.get is started,
\* secrets.get is awaited first
FromLocalSecrets(p, edvId, password) ==
  /\ Resting(p)
  /\ ncalls < MaxCalls
  /\ call' = [call EXCEPT ![p] =
       [Begin(p, "fromLocalSecrets", <<edvId>>,
              [edvId |-> edvId, password |-> password])
          EXCEPT !.pc = "fromLocalSecrets.secrets.get"]]
  /\ ncalls' = ncalls + 1
  /\ UNCHANGED <<db, loading, purging>>

\* fromLocalSecrets: secrets.get({id: edvId}) settles
fromLocalSecretsGetSecret(p) ==
  LET c == call[p] IN
  /\ c.pc = "fromLocalSecrets.secrets.get"
  /\ \E record \in _getExisting(db[SECRET_COLLECTION], ById(c.key)) :
       call' = [call EXCEPT ![p] =
         IF record = NoHit
         THEN Done(c, Err("NotFoundError", "Configuration not found."))
         ELSE SecretLoaded(c, db[SECRET_COLLECTION][record.id].data.config)]
  /\ UNCHANGED <<db, ncalls, loading, purging>>

\* fromLocalSecrets: the edvs.get({id: edvId}) started at the beginning
\* settles; a rejection is thrown on, a record makes the client
fromLocalSecretsGetConfig(p) ==
  LET c == call[p] IN
  /\ c.pc = "fromLocalSecrets.edvs.get"
  /\ \E record \in _getExisting(db[CONFIG_COLLECTION], ById(c.key)) :
       call' = [call EXCEPT ![p] =
         IF record = NoHit
         THEN Done(c, Err("NotFoundError", "Configuration not found."))
         ELSE Done(c, Value(Client(c.local.id, c.local.keys,
                      db[CONFIG_COLLECTION][record.id].data.config)))]
  /\ UNCHANGED <<db, ncalls, loading, purging>>

\* the vault configurations callers pass to createEdv: with the caller's own
\* keys, or without keys
OwnKeys ==
  [hmac |-> [id |-> "urn:hmac", type |-> "urn:hmac-type"],
   keyAgreementKey |-> [id |-> "urn:keyAgreement", type |-> "urn:keyAgreement-type"]]
EdvConfigs ==
  [id : EdvIds, sequence : 0 .. 1, controller : {"urn:controller"},
   hmac : {NoData, OwnKeys.hmac}, keyAgreementKey : {NoData}]
  \cup
  [id : EdvIds, sequence : 0 .. 1, controller : {"urn:controller"},
   hmac : {OwnKeys.hmac}, keyAgreementKey : {OwnKeys.keyAgreementKey}]

\* ------------------------------------------------------------ the get calls
\* get that resolves with `undefined` when nothing is found
GetSettledUndefined(c, record, store) ==
  IF record = NoHit THEN Done(c, Value(NoData))
  ELSE Done(c, Value(Fetched(store, record.id)))

\* get, once find has settled: `if(!record) throw NotFoundError; return record`
GetSettled(c, record, store) ==
  IF record = NoHit THEN Done(c, c.local)
  ELSE Done(c, Value(Fetched(store, record.id)))

\* ConfigStorage.get({id}) on the storage of collection coll
ConfigGet(p, coll, id) ==
  /\ Resting(p)
  /\ ncalls < MaxCalls
  /\ call' = [call EXCEPT ![p] =
       [Begin(p, "ConfigStorage.get", <<id>>, [id |-> id])
          EXCEPT !.pc = "get.find", !.coll = coll, !.query = ById(<<id>>),
                 !.local = Err("NotFoundError", "Configuration not found.")]]
  /\ ncalls' = ncalls + 1
  /\ UNCHANGED <<db, loading, purging>>

\* docs.get({edvId, id})
DocsGet(p, edvId, id) ==
  /\ Resting(p)
  /\ ncalls < MaxCalls
  /\ LET _id == _createId(parseLocalId(edvId), id) IN
     call' = [call EXCEPT ![p] =
       [Begin(p, "docs.get", _id, [edvId |-> edvId, id |-> id])
          EXCEPT !.pc = "get.find", !.coll = DOC_COLLECTION, !.query = ById(_id),
                 !.local = Err("NotFoundError", "Document not found.")]]
  /\ ncalls' = ncalls + 1
  /\ UNCHANGED <<db, loading, purging>>

\* chunks.get({edvId, docId, index})
ChunksGet(p, edvId, docId, index) ==
  /\ Resting(p)
  /\ ncalls < MaxCalls
  /\ LET _id == ChunkId(parseLocalId(edvId), docId, index) IN
     call' = [call EXCEPT ![p] =
       [Begin(p, "chunks.get", _id,
              [edvId |-> edvId, docId |-> docId, index |-> index])
          EXCEPT !.pc = "get.find", !.coll = CHUNK_COLLECTION, !.query = ById(_id),
                 !.local = Err("NotFoundError", "Document chunk not found.")]]
  /\ ncalls' = ncalls + 1
  /\ UNCHANGED <<db, loading, purging>>

\* get: _client.find({selector: {_id}, limit: 1})
getFind(p) ==
  LET c == call[p] IN
  /\ c.pc = "get.find"
  /\ \E record \in _getExisting(db[c.coll], c.query) :
       call' = [call EXCEPT ![p] = GetSettled(c, record, db[c.coll])]
  /\ UNCHANGED <<db, ncalls, loading, purging>>

\* property `name` of a record as find() hands it back: `undefined` when the
\* record has no such property
RecordField(record, name) ==
  IF name \in DOMAIN record.data THEN record.data[name] ELSE NoData

\* PouchTransport.storeChunk({docId, chunk}): `return chunks.upsert(...)`
TransportStoreChunk(p, edvId, docId, chunk) == ChunksUpsert(p, edvId, docId, chunk)

\* PouchTransport.getChunk({docId, chunkIndex}): chunks.get({edvId, docId,
\* index: chunkIndex})
TransportGetChunk(p, edvId, docId, chunkIndex) ==
  /\ Resting(p)
  /\ ncalls < MaxCalls
  /\ LET _id == ChunkId(parseLocalId(edvId), docId, chunkIndex) IN
     call' = [call EXCEPT ![p] =
       [Begin(p, "transport.getChunk", _id,
              [edvId |-> edvId, docId |-> docId, chunkIndex |-> chunkIndex])
          EXCEPT !.pc = "getChunk.find", !.coll = CHUNK_COLLECTION,
                 !.query = ById(_id)]]
  /\ ncalls' = ncalls + 1
  /\ UNCHANGED <<db, loading, purging>>

\* getChunk, once chunks.get has settled: NotFoundError, or `return record.doc`
getChunkFind(p) ==
  LET c == call[p] IN
  /\ c.pc = "getChunk.find"
  /\ \E record \in _getExisting(db[CHUNK_COLLECTION], c.query) :
       call' = [call EXCEPT ![p] =
         IF record = NoHit
         THEN Done(c, Err("NotFoundError", "Document chunk not found."))
         ELSE Done(c, Value(RecordField(Fetched(db[CHUNK_COLLECTION], record.id),
                                        "doc")))]
  /\ UNCHANGED <<db, ncalls, loading, purging>>

\* the configurations, documents and chunks stored ahead of a get
FirstConfigs == [id : EdvIds, sequence : {0}, controller : {"c1"}]
FirstChunks == {chunk \in Chunks : chunk.jwe = "jwe1"}

\* ------------------------------------------------------------------- Init
DocKeys == {<<e, d>> : e \in EdvIds, d \in DocIds}
ChunkKeys == {<<e, d, i>> : e \in EdvIds, d \in DocIds, i \in 0 .. MaxIndex}
ConfigKeys == {<<e>> : e \in EdvIds}

\* ------------------------------------------------- chunks.js: the purge
\* what _schedulePurge works on
PurgeState == [_purgeOp |-> _purgeOp, purges |-> purges]

\* _schedulePurge without its `if(_purgeOp) return`
_schedulePurgeAlways(st) ==
  [_purgeOp |-> TRUE,
   purges |-> [running |-> st.purges.running + 1,
               started |-> st.purges.started + 1]]

\* _schedulePurge that starts no purge
_schedulePurgeNever(st) == st

\* _schedulePurge(): nothing while _purgeOp is set; else purge() is called,
\* which runs up to its `await` of indexedDB.open, and _purgeOp holds the
\* promise of purge(...).catch(...).finally(...)
_schedulePurge(st) ==
  IF st._purgeOp THEN st
  ELSE [_purgeOp |-> TRUE,
        purges |-> [running |-> st.purges.running + 1,
                    started |-> st.purges.started + 1]]

Scheduled(st) ==
  /\ _purgeOp' = st._purgeOp
  /\ purges' = st.purges

\* purge's cursor over the store: every record with deleted === 1 is deleted
purge(store) ==
  [k \in DOMAIN store |->
     IF store[k].rev > 0 /\ store[k].deleted THEN Absent ELSE store[k]]

\* A running purge opens the database and walks the store in one readwrite
\* IndexedDB transaction; transactions on one store run one after another, so
\* every put lands before or after the whole walk.  The transaction's complete
\* event resolves purge(), and the promise jobs that follow it, `finally`
\* among them, run before any other database event is delivered.
PurgeRuns ==
  /\ jobs = <<>>
  /\ purges.running > 0
  /\ db' = [db EXCEPT ![CHUNK_COLLECTION] = purge(@)]
  /\ purges' = [purges EXCEPT !.running = @ - 1]
  /\ _purgeOp' = FALSE
  /\ UNCHANGED <<call, ncalls, loading>>

\* A running purge rejects (database blocked, upgrade needed, open error,
\* transaction aborted) or returns early (no `docs` store): nothing is
\* deleted, `catch` logs the error and `finally` resets _purgeOp
PurgeFails ==
  /\ jobs = <<>>
  /\ purges.running > 0
  /\ purges' = [purges EXCEPT !.running = @ - 1]
  /\ _purgeOp' = FALSE
  /\ UNCHANGED <<db, call, ncalls, loading>>

\* chunks.remove({edvId, docId, index})
ChunksRemove(p, edvId, docId, index) ==
  /\ Resting(p)
  /\ ncalls < MaxCalls
  /\ LET _id == ChunkId(parseLocalId(edvId), docId, index) IN
     call' = [call EXCEPT ![p] =
       [Begin(p, "chunks.remove", _id,
              [edvId |-> edvId, docId |-> docId, index |-> index])
          EXCEPT !.pc = "remove.get", !.coll = CHUNK_COLLECTION,
                 !.query = ById(_id)]]
  /\ ncalls' = ncalls + 1
  /\ UNCHANGED <<db, loading, purging>>

\* remove: `record = await get(...)`; NotFoundError makes it return false
chunksRemoveGet(p) ==
  LET c == call[p] IN
  /\ c.pc = "remove.get"
  /\ \E record \in _getExisting(db[CHUNK_COLLECTION], c.query) :
       call' = [call EXCEPT ![p] =
         IF record = NoHit
         THEN Done(c, Value(FALSE))
         ELSE [c EXCEPT !.pc = "remove.put", !.existing = record,
                        !.doc = [Fetched(db[CHUNK_COLLECTION], record.id)
                                   EXCEPT !.deleted = TRUE]]]
  /\ UNCHANGED <<db, ncalls, loading, purging>>

\* remove: `record._deleted = true; await _client.put(record)`; a stale _rev
\* rejects with PouchDB's 409 and remove throws it
chunksRemovePut(p) ==
  LET c == call[p] IN
  /\ c.pc = "remove.put"
  /\ IF PutAccepted(db[CHUNK_COLLECTION], c.doc._id, c.existing.rev)
     THEN /\ db' = [db EXCEPT ![CHUNK_COLLECTION] =
                      PutResult(@, c.doc._id, TRUE, c.doc.data)]
          /\ call' = [call EXCEPT ![p].pc = "remove.schedule"]
     ELSE /\ call' = [call EXCEPT ![p] =
                        Done(c, Err("conflict", "Document update conflict"))]
          /\ db' = db
  /\ UNCHANGED <<ncalls, loading, purging>>

\* remove, resumed after the put: `_schedulePurge(); return true`
chunksRemoveSchedule(p) ==
  LET c == call[p] IN
  /\ c.pc = "remove.schedule"
  /\ Scheduled(_schedulePurge(PurgeState))
  /\ call' = [call EXCEPT ![p] = Done(c, Value(TRUE))]
  /\ UNCHANGED <<db, ncalls, loading>>

\* ------------------------------------------------- initialize.js: the API
\* The modules initialize() loads, in the order of its Promise.all.
Modules == <<"chunks", "docs", "edvs", "secrets">>
ModuleNames == {Modules[i] : i \in DOMAIN Modules}

\* awaited database requests of a module's initialize once its handle is set:
\* chunks _client.info(); docs createIndex three times; edvs createIndex;
\* secrets createIndex twice
Requests(m) ==
  CASE m = "chunks" -> 1
    [] m = "docs" -> 3
    [] m = "edvs" -> 1
    [] OTHER -> 2

\* the state one synchronous run of code works on
Loading ==
  [_client |-> _client, _storage |-> _storage, handles |-> handles,
   jobs |-> jobs, io |-> io, settled |-> {}]

\* `x = await createDatabase(...)`: createDatabase constructs the PouchDB
\* handle and returns; being an async function without an await, its promise
\* is already resolved, so the await queues the assignment as a promise job
createDatabase(st, m, p) ==
  LET h == st.handles[m] + 1 IN
  [st EXCEPT !.handles[m] = h,
             !.jobs = Append(@, [type |-> "assign", m |-> m, p |-> p, h |-> h])]

\* chunks.initialize() / docs.initialize() up to their first await
clientInitialize(st, m, p) ==
  IF st._client[m] # 0
  THEN [st EXCEPT !.settled = @ \cup {m}]
  ELSE createDatabase(st, m, p)

\* edvs.initialize() up to its first await: _client = new PouchDB(...), then
\* await _client.createIndex(...)
edvsInitialize(st, p) ==
  LET h == st.handles["edvs"] + 1 IN
  [st EXCEPT !.handles["edvs"] = h, !._client["edvs"] = h,
             !.io = @ \cup {[type |-> "request", m |-> "edvs", p |-> p,
                             left |-> Requests("edvs")]}]

\* secrets.initialize() up to its first await: _storage is set, then
\* _storage.initialize() runs up to its own await
secretsInitialize(st, p) ==
  IF st._storage
  THEN [st EXCEPT !.settled = @ \cup {"secrets"}]
  ELSE LET stored == [st EXCEPT !._storage = TRUE] IN
       IF stored._client["secrets"] # 0
       THEN [stored EXCEPT !.jobs =
               Append(@, [type |-> "resume", m |-> "secrets", p |-> p, h |-> 0])]
       ELSE createDatabase(stored, "secrets", p)

\* Promise.all over promises of which `settled` are resolved already: one
\* reaction job each
PromiseAll(st, p) ==
  LET RECURSIVE react(_, _)
      react(q, i) ==
        IF i > Len(Modules) THEN q
        ELSE react(IF Modules[i] \in st.settled
                   THEN Append(q, [type |-> "element", m |-> Modules[i],
                                   p |-> p, h |-> 0])
                   ELSE q, i + 1) IN
  [st EXCEPT !.jobs = react(st.jobs, 1)]

\* the module state a run of code leaves behind
Loaded(st) ==
  /\ _client' = st._client
  /\ _storage' = st._storage
  /\ handles' = st.handles
  /\ jobs' = st.jobs
  /\ io' = st.io

\* caller p: `await initialize()`, i.e. Promise.all([chunks.initialize(),
\* docs.initialize(), edvs.initialize(), secrets.initialize()])
Initialize(p) ==
  /\ loader[p].pc = "start"
  /\ LET st == PromiseAll(
                 secretsInitialize(
                   edvsInitialize(
                     clientInitialize(
                       clientInitialize(Loading, "chunks", p), "docs", p), p), p), p) IN
     Loaded(st)
  /\ loader' = [loader EXCEPT ![p] = [pc |-> "await", left |-> ModuleNames]]
  /\ UNCHANGED <<db, call, ncalls, purging>>

\* the promise job at the head of the queue is `_client = <handle>` (or
\* `this.client = <handle>` of ConfigStorage.initialize), followed by the code
\* up to the next await
RunAssign ==
  /\ jobs # <<>>
  /\ Head(jobs).type = "assign"
  /\ LET j == Head(jobs) IN
     /\ _client' = [_client EXCEPT ![j.m] = j.h]
     /\ IF j.m = "secrets"
        THEN /\ jobs' = Append(Tail(jobs), [j EXCEPT !.type = "resume", !.h = 0])
             /\ io' = io
        ELSE /\ jobs' = Tail(jobs)
             /\ io' = io \cup {[type |-> "request", m |-> j.m, p |-> j.p,
                                 left |-> Requests(j.m)]}
  /\ UNCHANGED <<db, call, ncalls, _storage, handles, loader, purging>>

\* secrets.initialize resumes after `await _storage.initialize()` and starts
\* its first createIndex on _storage.client
RunResume ==
  /\ jobs # <<>>
  /\ Head(jobs).type = "resume"
  /\ LET j == Head(jobs) IN
     /\ jobs' = Tail(jobs)
     /\ io' = io \cup {[type |-> "request", m |-> j.m, p |-> j.p,
                         left |-> Requests(j.m)]}
  /\ UNCHANGED <<db, call, ncalls, _client, _storage, handles, loader, purging>>

\* Promise.all's reaction to one module's initialize having resolved; the
\* last one resolves initialize()
RunElement ==
  /\ jobs # <<>>
  /\ Head(jobs).type = "element"
  /\ LET j == Head(jobs)
         left == loader[j.p].left \ {j.m} IN
     /\ loader' = [loader EXCEPT ![j.p].left = left]
     /\ jobs' = IF left = {}
                THEN Append(Tail(jobs), [j EXCEPT !.type = "completed"])
                ELSE Tail(jobs)
  /\ UNCHANGED <<db, call, ncalls, _client, _storage, handles, io, purging>>

\* the caller resumes after `await initialize()`
RunCompleted ==
  /\ jobs # <<>>
  /\ Head(jobs).type = "completed"
  /\ jobs' = Tail(jobs)
  /\ loader' = [loader EXCEPT ![Head(jobs).p].pc = "completed"]
  /\ UNCHANGED <<db, call, ncalls, _client, _storage, handles, io, purging>>

\* a database request settles (only once no promise job is left to run); the
\* module goes on to its next request, or its initialize resolves; after its
\* `await _client.info()` chunks.initialize schedules a purge
RequestSettles ==
  /\ jobs = <<>>
  /\ \E r \in io :
       /\ r.type = "request"
       /\ IF r.left > 1
          THEN /\ io' = (io \ {r}) \cup {[r EXCEPT !.left = @ - 1]}
               /\ jobs' = jobs
          ELSE /\ io' = io \ {r}
               /\ jobs' = <<[type |-> "element", m |-> r.m, p |-> r.p, h |-> 0]>>
       /\ IF r.m = "chunks" /\ r.left = 1
          THEN Scheduled(_schedulePurge(PurgeState))
          ELSE UNCHANGED purging
  /\ UNCHANGED <<db, call, ncalls, _client, _storage, handles, loader>>

\* the modules as loaded by one initialize() that has completed
InitLoaded ==
  /\ _client = [m \in ModuleNames |-> 1]
  /\ _storage = TRUE
  /\ handles = [m \in ModuleNames |-> 1]
  /\ jobs = <<>>
  /\ io = {}
  /\ loader = [p \in Callers |-> [pc |-> "completed", left |-> {}]]
  /\ _purgeOp = FALSE
  /\ purges = [running |-> 0, started |-> 1]

\* the modules as one initialize() leaves them when it resolves: the purge
\* chunks.initialize scheduled is still waiting for its database to open
InitPurging ==
  /\ _client = [m \in ModuleNames |-> 1]
  /\ _storage = TRUE
  /\ handles = [m \in ModuleNames |-> 1]
  /\ jobs = <<>>
  /\ io = {}
  /\ loader = [p \in Callers |-> [pc |-> "completed", left |-> {}]]
  /\ _purgeOp = TRUE
  /\ purges = [running |-> 1, started |-> 1]

\* the modules as imported, before any initialize()
InitImported ==
  /\ _client = [m \in ModuleNames |-> 0]
  /\ _storage = FALSE
  /\ handles = [m \in ModuleNames |-> 0]
  /\ jobs = <<>>
  /\ io = {}
  /\ loader = [p \in Callers |-> [pc |-> "start", left |-> {}]]
  /\ _purgeOp = FALSE
  /\ purges = [running |-> 0, started |-> 0]

InitStore ==
  /\ db = [coll \in Collections |->
             CASE coll = DOC_COLLECTION -> [k \in DocKeys |-> Absent]
               [] coll = CHUNK_COLLECTION -> [k \in ChunkKeys |-> Absent]
               [] OTHER -> [k \in ConfigKeys |-> Absent]]
  /\ call = [p \in Procs |-> Idle]
  /\ ncalls = 0

Init == InitStore /\ InitLoaded

\* empty databases and modules no caller has initialized
InitFresh == InitStore /\ InitImported

\* empty databases, initialize() having just resolved
InitPurge == InitStore /\ InitPurging

\* the requests of the insertOne loop
InsertStep(p) ==
  \/ insertOneCheck(p)
  \/ insertOnePut(p)

\* the requests of the insertOne / updateOne loops
Step(p) ==
  \/ InsertStep(p)
  \/ updateOneFind(p)
  \/ updateOneCheck(p)
  \/ updateOnePut(p)

\* Callers of initialize() on freshly imported modules, each at any point
\* between two promise jobs.  The chunk collection holds no tombstone here, so
\* a purge that fails leaves the same state as one that runs.
NextInitialize ==
  \/ \E p \in Callers : Initialize(p)
  \/ RunAssign
  \/ RunResume
  \/ RunElement
  \/ RunCompleted
  \/ RequestSettles
  \/ PurgeRuns

SpecInitialize == InitFresh /\ [][NextInitialize]_vars

\* One caller, one call at a time: a non-interleaved series of docs calls.
NextDocs ==
  \/ \E doc \in NewDocs : DocsInsert(1, Vault, doc)
  \/ \E doc \in Docs, deleted \in BOOLEAN : DocsUpsert(1, Vault, doc, deleted)
  \/ Step(1)

SpecDocs == Init /\ [][NextDocs]_vars

\* One caller storing versions of one document, one call at a time; every
\* database request that was issued settles, and the code awaiting it goes on.
LoopDocs == {doc \in Docs : doc.id = "d1"}

NextLoop ==
  \/ \E doc \in LoopDocs \cap NewDocs : DocsInsert(1, Vault, doc)
  \/ \E doc \in LoopDocs, deleted \in BOOLEAN : DocsUpsert(1, Vault, doc, deleted)
  \/ Step(1)

SpecLoop == Init /\ [][NextLoop]_vars /\ WF_vars(Step(1))

\* Two callers storing documents of one vault, their database requests
\* interleaved in any order.
RaceIndexed == {{}, {Attr("n1", "a", TRUE)}, {Attr("n1", "b", TRUE)}}
RaceDocs == {doc \in NewDocs : doc.indexed \in RaceIndexed}

NextRace ==
  \/ \E p \in Procs, doc \in RaceDocs : DocsInsert(p, Vault, doc)
  \/ \E p \in Procs, doc \in RaceDocs : DocsUpsert(p, Vault, doc, FALSE)
  \/ \E p \in Procs : Step(p)

SpecRace == Init /\ [][NextRace]_vars

\* Two callers, each inserting once (a document, or a configuration into
\* either storage), their database requests interleaved in any order; every
\* request that was issued settles, and the code awaiting it goes on.
NextInsertRace ==
  \/ \E p \in Procs, doc \in RaceDocs :
       call[p].op = "idle" /\ DocsInsert(p, Vault, doc)
  \/ \E p \in Procs, coll \in Storages, config \in FirstConfigs :
       call[p].op = "idle" /\ ConfigInsert(p, coll, config)
  \/ \E p \in Procs : InsertStep(p)

SpecInsertRace ==
  Init /\ [][NextInsertRace]_vars /\ \A p \in Procs : WF_vars(InsertStep(p))

\* One client working on one vault through its transport.
NextTransport ==
  \/ \E doc \in NewDocs : TransportInsert(1, Vault, doc)
  \/ \E doc \in Docs : TransportUpdate(1, Vault, doc)
  \/ \E doc \in PlainDocs : ClientDelete(1, Vault, doc)
  \/ \E query \in Queries : TransportFind(1, Vault, query)
  \/ docsFind(1)
  \/ Step(1)

SpecTransport == Init /\ [][NextTransport]_vars

\* Two callers inserting and updating configurations, their database
\* requests interleaved in any order.
NextConfig ==
  \/ \E p \in Procs, coll \in Storages, config \in NewConfigs :
       ConfigInsert(p, coll, config)
  \/ \E p \in Procs, coll \in Storages, config \in Configs :
       ConfigUpdate(p, coll, config)
  \/ \E p \in Procs : Step(p)

SpecConfig == Init /\ [][NextConfig]_vars

\* One caller storing documents and their chunks.
NextChunks ==
  \/ \E doc \in PlainDocs \cap NewDocs : DocsInsert(1, Vault, doc)
  \/ \E doc \in PlainDocs, deleted \in BOOLEAN : DocsUpsert(1, Vault, doc, deleted)
  \/ \E docId \in DocIds, chunk \in Chunks : ChunksUpsert(1, Vault, docId, chunk)
  \/ chunksGetDoc(1)
  \/ Step(1)

SpecChunks == Init /\ [][NextChunks]_vars

\* One caller creating vaults, with and without a password, storing secrets
\* ahead of a vault, and making clients from the stored secrets.
NextEdv ==
  \/ \E config \in EdvConfigs, password \in Passwords \cup {undefined},
        cv \in CipherVersions :
       CreateEdv(1, config, password, cv)
  \/ \E id \in EdvIds, password \in Passwords, cv \in CipherVersions :
       ConfigInsert(1, SECRET_COLLECTION,
                    generate(id, password, cv, ncalls + 1).config)
  \/ \E id \in EdvIds, password \in Passwords : FromLocalSecrets(1, id, password)
  \/ InsertStep(1)
  \/ edvsGet(1)
  \/ secretsGet(1)
  \/ fromLocalSecretsGetSecret(1)
  \/ fromLocalSecretsGetConfig(1)

SpecEdv == Init /\ [][NextEdv]_vars

\* Two callers creating vaults with a password, their database requests
\* interleaved in any order.
RaceEdvConfigs ==
  {config \in EdvConfigs : config.hmac = NoData /\ config.keyAgreementKey = NoData}

NextEdvRace ==
  \/ \E p \in Procs, config \in RaceEdvConfigs, password \in Passwords,
        cv \in CipherVersions :
       CreateEdv(p, config, password, cv)
  \/ \E p \in Procs : InsertStep(p)
  \/ \E p \in Procs : edvsGet(p)
  \/ \E p \in Procs : secretsGet(p)

SpecEdvRace == Init /\ [][NextEdvRace]_vars

\* One caller storing documents while another stores their chunks, their
\* database requests interleaved in any order.
NextChunkRace ==
  \/ \E doc \in PlainDocs \cap NewDocs : DocsInsert(1, Vault, doc)
  \/ \E doc \in PlainDocs, deleted \in BOOLEAN : DocsUpsert(1, Vault, doc, deleted)
  \/ \E docId \in DocIds, chunk \in FirstChunks : ChunksUpsert(2, Vault, docId, chunk)
  \/ chunksGetDoc(2)
  \/ \E p \in Procs : Step(p)

SpecChunkRace == Init /\ [][NextChunkRace]_vars

\* Two callers storing the same chunk of one document.
PairDocs == {doc \in PlainDocs \cap NewDocs : doc.id = "d1"}
PairChunks == {chunk \in Chunks : chunk.index = 0}
NextChunkPair ==
  \/ \E doc \in PairDocs : call[1].op = "idle" /\ DocsInsert(1, Vault, doc)
  \/ \E p \in Procs, chunk \in PairChunks : ChunksUpsert(p, Vault, "d1", chunk)
  \/ \E p \in Procs : chunksGetDoc(p)
  \/ \E p \in Procs : Step(p)
SpecChunkPair == Init /\ [][NextChunkPair]_vars

\* One caller creating vaults, with and without a password, one call at a time.
NextCreateEdv ==
  \/ \E config \in EdvConfigs, password \in Passwords \cup {undefined},
        cv \in CipherVersions :
       CreateEdv(1, config, password, cv)
  \/ InsertStep(1)
  \/ edvsGet(1)
  \/ secretsGet(1)
SpecCreateEdv == Init /\ [][NextCreateEdv]_vars

\* Callers storing and removing the chunks of one document, from the moment
\* initialize() has resolved, while purges of the chunk collection run.
PurgeChunks == {chunk \in FirstChunks : chunk.sequence = 0}
PurgeCalls ==
  \/ \E doc \in PairDocs : DocsInsert(1, Vault, doc)
  \/ \E p \in Procs, chunk \in PurgeChunks : ChunksUpsert(p, Vault, "d1", chunk)
  \/ \E p \in Procs, index \in 0 .. MaxIndex : ChunksRemove(p, Vault, "d1", index)
  \/ \E p \in Procs : chunksGetDoc(p)
  \/ \E p \in Procs : Step(p)
  \/ \E p \in Procs : chunksRemoveGet(p)
  \/ \E p \in Procs : chunksRemovePut(p)
  \/ \E p \in Procs : chunksRemoveSchedule(p)

\* purges may fail
NextPurge ==
  \/ PurgeCalls
  \/ PurgeRuns
  \/ PurgeFails
SpecPurge == InitPurge /\ [][NextPurge]_vars

\* no purge fails; a running purge gets its turn, and so does the code of
\* remove that waits for its put
NextPurgeFair ==
  \/ PurgeCalls
  \/ PurgeRuns
SpecPurgeFair ==
  /\ InitPurge /\ [][NextPurgeFair]_vars
  /\ WF_vars(PurgeRuns)
  /\ \A p \in Procs : WF_vars(chunksRemoveSchedule(p))

\* One caller storing documents in two vaults and calling find with the id of
\* either vault and a selector of its own making.
SelectorDocs == {doc \in FindDocs : doc.sequence = 0 /\ doc.indexed # {}}
NextFindSelector ==
  \/ \E e \in EdvIds, doc \in SelectorDocs : DocsInsert(1, e, doc)
  \/ \E e \in EdvIds, q \in EdvIds \cup {undefined}, edvQuery \in FindQueries :
       DocsFind(1, e, q, edvQuery)
  \/ findRecords(1)
  \/ InsertStep(1)
SpecFindSelector == Init /\ [][NextFindSelector]_vars

\* One client storing a document's chunks through its transport and reading
\* them back, one call at a time.
NextChunkTransport ==
  \/ \E doc \in PairDocs : DocsInsert(1, Vault, doc)
  \/ \E chunk \in Chunks : TransportStoreChunk(1, Vault, "d1", chunk)
  \/ \E index \in 0 .. MaxIndex : TransportGetChunk(1, Vault, "d1", index)
  \/ chunksGetDoc(1)
  \/ Step(1)
  \/ getChunkFind(1)
SpecChunkTransport == Init /\ [][NextChunkTransport]_vars

\* Secrets generated and decrypted, by either caller.
NextSecrets ==
  \/ \E p \in Procs, id \in EdvIds, password \in Passwords, cv \in CipherVersions :
       SecretsGenerate(p, id, password, cv)
  \/ \E p \in Procs, q \in Procs, password \in Passwords :
       SecretsDecrypt(p, q, password)

SpecSecrets == Init /\ [][NextSecrets]_vars

\* One caller storing and deleting documents with attributes in either
\* vault, and querying them.
NextFind ==
  \/ \E e \in EdvIds, doc \in FindDocs : doc.sequence = 0 /\ DocsInsert(1, e, doc)
  \/ \E e \in EdvIds, doc \in FindDocs, deleted \in BOOLEAN :
       doc.sequence = 1 /\ DocsUpsert(1, e, doc, deleted)
  \/ \E q \in EdvIds, edvQuery \in FindQueries : DocsFind(1, Vault, q, edvQuery)
  \/ findRecords(1)
  \/ Step(1)

SpecFind == Init /\ [][NextFind]_vars

\* no call is in progress
Quiet == \A p \in Procs : Resting(p)

\* Caller 1 stores configurations, documents and chunks, in either vault;
\* caller 2 gets them.  A call starts when no other is in progress.
NextGet ==
  \/ /\ Quiet
     /\ \/ \E coll \in Storages, config \in FirstConfigs :
             ConfigInsert(1, coll, config)
        \/ \E e \in EdvIds, doc \in PlainDocs \cap NewDocs : DocsInsert(1, e, doc)
        \/ \E e \in EdvIds, doc \in PlainDocs, deleted \in BOOLEAN :
             DocsUpsert(1, e, doc, deleted)
        \/ \E e \in EdvIds, docId \in DocIds, chunk \in FirstChunks :
             ChunksUpsert(1, e, docId, chunk)
        \/ \E coll \in Storages, id \in EdvIds : ConfigGet(2, coll, id)
        \/ \E e \in EdvIds, id \in DocIds : DocsGet(2, e, id)
        \/ \E e \in EdvIds, docId \in DocIds, index \in 0 .. MaxIndex :
             ChunksGet(2, e, docId, index)
  \/ chunksGetDoc(1)
  \/ Step(1)
  \/ getFind(2)

SpecGet == Init /\ [][NextGet]_vars

\* ================================================================ properties

\* C1: when docs.upsert directly follows the successful docs.insert of the
\* same document id, with the same indexed attributes, it succeeds if and only
\* if its sequence n is the inserted sequence plus one, and then stores the
\* new document; for every other n it fails with InvalidStateError("Could not
\* update document. Sequence does not match.") and the database is as it was.
C1_UpsertAfterInsert ==
  LET c == call[1] IN
  ( /\ c.op = "docs.upsert"
    /\ c.pc = "done"
    /\ c.prev = [op |-> "docs.insert", key |-> c.key, kind |-> "ok"]
    /\ c.pre[DOC_COLLECTION][c.key].data.doc.indexed = c.args.doc.indexed )
  => LET stored == c.pre[DOC_COLLECTION][c.key]
         n == c.args.doc.sequence IN
     IF n = stored.data.doc.sequence + 1
     THEN /\ c.result.kind = "ok"
          /\ c.result.value.data.doc = c.args.doc
          /\ db[DOC_COLLECTION][c.key].rev = stored.rev + 1
          /\ db[DOC_COLLECTION][c.key].deleted = c.args.deleted
          /\ db[DOC_COLLECTION][c.key].data.doc = c.args.doc
          /\ \A k \in DocKeys \ {c.key} :
               db[DOC_COLLECTION][k] = c.pre[DOC_COLLECTION][k]
     ELSE /\ c.result = Err("InvalidStateError",
                            "Could not update document. Sequence does not match.")
          /\ db = c.pre

\* an upsert that follows the insert of its document with a sequence that is
\* not the next one, and was refused
C1_Witness ==
  LET c == call[1] IN
  /\ c.op = "docs.upsert"
  /\ c.pc = "done"
  /\ c.prev = [op |-> "docs.insert", key |-> c.key, kind |-> "ok"]
  /\ c.pre[DOC_COLLECTION][c.key].data.doc.indexed = c.args.doc.indexed
  /\ c.args.doc.sequence # c.pre[DOC_COLLECTION][c.key].data.doc.sequence + 1
  /\ c.result.kind = "InvalidStateError"

\* C2: in every state a non-interleaved series of docs.insert / docs.upsert
\* calls reaches, no two distinct live documents of one vault both mark the
\* same blinded (hmac id, name, value) attribute unique.
C2_UniqueHeldOnce ==
  \A k1 \in DocKeys, k2 \in DocKeys :
    LET r1 == db[DOC_COLLECTION][k1]
        r2 == db[DOC_COLLECTION][k2] IN
    (k1 # k2 /\ IsLive(r1) /\ IsLive(r2) /\ r1.data.localEdvId = r2.data.localEdvId)
    => r1.data.uniqueAttributes \cap r2.data.uniqueAttributes = {}

\* C3: with callers interleaved in any order, a ConfigStorage.update call
\* settles successfully exactly when, at the step that settles it, its
\* configuration is stored with sequence config.sequence - 1, and then the
\* stored configuration becomes the given one; otherwise it settles with
\* InvalidStateError and the step changes nothing.  Every change of a stored
\* configuration either creates it with sequence 0 or raises its sequence by
\* exactly 1.
C3_SequenceGate ==
  [][ /\ \A p \in Procs :
           LET c == call[p] IN
           (c.op = "ConfigStorage.update" /\ c.pc # "done" /\ call'[p].pc = "done")
           => LET stored == db[c.coll][c.key] IN
              IF /\ IsLive(stored)
                 /\ stored.data.config.sequence = c.args.config.sequence - 1
              THEN /\ call'[p].result.kind = "ok"
                   /\ call'[p].result.value.data.config = c.args.config
                   /\ db' = [db EXCEPT ![c.coll][c.key] =
                               [rev |-> stored.rev + 1, deleted |-> FALSE,
                                data |-> [config |-> c.args.config]]]
              ELSE /\ call'[p].result =
                        Err("InvalidStateError",
                            "Could not update configuration. Sequence does not match or configuration does not exist.")
                   /\ db' = db
      /\ \A coll \in Storages, k \in ConfigKeys :
           db'[coll][k] # db[coll][k]
           => /\ IsLive(db'[coll][k])
              /\ db'[coll][k].data.config.sequence =
                   IF db[coll][k].rev = 0 THEN 0
                   ELSE db[coll][k].data.config.sequence + 1 ]_vars

\* two callers raced to update one configuration to the same sequence: both
\* found it stored, one wrote it, the other was refused
C3_Witness ==
  /\ call[1].op = "ConfigStorage.update" /\ call[2].op = "ConfigStorage.update"
  /\ call[1].pc = "done" /\ call[2].pc = "done"
  /\ call[1].coll = call[2].coll /\ call[1].key = call[2].key
  /\ call[1].args.config.sequence = call[2].args.config.sequence
  /\ call[1].existing # NoHit /\ call[2].existing # NoHit
  /\ call[1].result.kind = "ok"
  /\ call[2].result.kind = "InvalidStateError"
  /\ db[call[1].coll][call[1].key].data.config = call[1].args.config

\* C4: a createEdv call with a password that succeeds leaves the vault
\* configuration and the secret stored, the configuration carrying the
\* secret's key ids; stored configurations and secrets stay stored; and while
\* both are stored for a vault id, every createEdv call for that id with
\* valid arguments (a password and a configuration without keys, or no
\* password and a configuration with keys and sequence 0) fails with
\* DuplicateError and leaves the database as it was.
C4_DuplicateEdv ==
  /\ [](LET c == call[1] IN
        /\ ( /\ c.op = "createEdv" /\ c.pc = "done"
             /\ c.args.password # undefined
             /\ c.result.kind = "ok" )
           => /\ IsLive(db[CONFIG_COLLECTION][c.key])
              /\ IsLive(db[SECRET_COLLECTION][c.key])
              /\ db[CONFIG_COLLECTION][c.key].data.config.hmac.id
                   = db[SECRET_COLLECTION][c.key].data.config.hmacId
              /\ db[CONFIG_COLLECTION][c.key].data.config.keyAgreementKey.id
                   = db[SECRET_COLLECTION][c.key].data.config.keyAgreementKeyId
        /\ ( /\ c.op = "createEdv" /\ c.pc = "done"
             /\ IsLive(c.pre[CONFIG_COLLECTION][c.key])
             /\ IsLive(c.pre[SECRET_COLLECTION][c.key])
             /\ \/ /\ c.args.password # undefined
                   /\ c.args.config.hmac = NoData
                   /\ c.args.config.keyAgreementKey = NoData
                \/ /\ c.args.password = undefined
                   /\ c.args.config.hmac # NoData
                   /\ c.args.config.keyAgreementKey # NoData
                   /\ c.args.config.sequence = 0 )
           => /\ c.result.kind = "DuplicateError"
              /\ db = c.pre)
  /\ [][\A coll \in Storages, k \in ConfigKeys :
          IsLive(db[coll][k]) => db'[coll][k] = db[coll][k]]_vars

\* createEdv with a password succeeded, and the next call, again with a
\* password for the same vault id, was refused as a duplicate
C4_Witness ==
  LET c == call[1] IN
  /\ c.op = "createEdv" /\ c.pc = "done"
  /\ c.prev = [op |-> "createEdv", key |-> c.key, kind |-> "ok"]
  /\ c.args.password # undefined
  /\ IsLive(c.pre[SECRET_COLLECTION][c.key])
  /\ c.pre[CONFIG_COLLECTION][c.key].data.config.hmac.id
       = c.pre[SECRET_COLLECTION][c.key].data.config.hmacId
  /\ c.result = Err("DuplicateError", "Duplicate EDV configuration.")

\* C5: when a secret is stored for a vault id and no vault configuration is,
\* createEdv with a password (and a configuration without keys, sequence 0)
\* succeeds if and only if the password is the one the secret was generated
\* with; it then leaves the secret as it was and stores the configuration with
\* the secret's key ids; with any other password it fails with Error("Secret
\* already exists for EDV ID (<id>) but password to unlock it is invalid.")
\* and writes nothing.
C5_ReuseSecret ==
  LET c == call[1] IN
  ( /\ c.op = "createEdv" /\ c.pc = "done"
    /\ IsLive(c.pre[SECRET_COLLECTION][c.key])
    /\ ~IsLive(c.pre[CONFIG_COLLECTION][c.key])
    /\ c.args.password # undefined
    /\ c.args.config.hmac = NoData
    /\ c.args.config.keyAgreementKey = NoData
    /\ c.args.config.sequence = 0 )
  => LET secret == c.pre[SECRET_COLLECTION][c.key].data.config IN
     \A pw \in Passwords, cv \in CipherVersions, nonce \in 1 .. MaxCalls :
       secret = generate(secret.id, pw, cv, nonce).config
       => IF c.args.password = pw
          THEN /\ c.result.kind = "ok"
               /\ db[SECRET_COLLECTION] = c.pre[SECRET_COLLECTION]
               /\ IsLive(db[CONFIG_COLLECTION][c.key])
               /\ db[CONFIG_COLLECTION][c.key].data.config =
                    [c.args.config EXCEPT
                       !.hmac = [id |-> secret.hmacId,
                                 type |-> "Sha256HmacKey2019"],
                       !.keyAgreementKey =
                         [id |-> secret.keyAgreementKeyId,
                          type |-> IF cv = "fips" THEN "Multikey"
                                   ELSE "X25519KeyAgreementKey2020"]]
               /\ c.result.value.config = db[CONFIG_COLLECTION][c.key].data.config
               /\ c.result.value.keys.hmac = generate(secret.id, pw, cv, nonce).hmac
               /\ c.result.value.keys.keyAgreementKey
                    = generate(secret.id, pw, cv, nonce).keyAgreementKey
               /\ \A k \in ConfigKeys \ {c.key} :
                    db[CONFIG_COLLECTION][k] = c.pre[CONFIG_COLLECTION][k]
          ELSE /\ c.result =
                    Err("Error", "Secret already exists for EDV ID (" \o secret.id
                                 \o ") but password to unlock it is invalid.")
               /\ db = c.pre

\* a secret stored ahead of its vault, then createEdv with the secret's
\* password: the vault is created on the stored secret
C5_Witness ==
  LET c == call[1] IN
  /\ c.op = "createEdv" /\ c.pc = "done"
  /\ c.prev = [op |-> "ConfigStorage.insert", key |-> c.key, kind |-> "ok"]
  /\ IsLive(c.pre[SECRET_COLLECTION][c.key])
  /\ ~IsLive(c.pre[CONFIG_COLLECTION][c.key])
  /\ c.result.kind = "ok"
  /\ db[SECRET_COLLECTION] = c.pre[SECRET_COLLECTION]
  /\ db[CONFIG_COLLECTION][c.key].data.config.hmac.id
       = db[SECRET_COLLECTION][c.key].data.config.hmacId

\* C6: chunks.upsert for a stored document stores the chunk when
\* chunk.sequence equals the document's sequence, and only then; for any other
\* chunk.sequence it fails with InvalidStateError (expected = the document's
\* sequence, actual = chunk.sequence) and leaves every chunk record as it was.
C6_ChunkSequence ==
  LET c == call[1] IN
  ( /\ c.op = "chunks.upsert" /\ c.pc = "done"
    /\ IsLive(c.pre[DOC_COLLECTION][<<c.args.edvId, c.args.docId>>]) )
  => LET doc == c.pre[DOC_COLLECTION][<<c.args.edvId, c.args.docId>>].data.doc IN
     IF c.args.chunk.sequence = doc.sequence
     THEN /\ c.result.kind = "ok"
          /\ IsLive(db[CHUNK_COLLECTION][c.key])
          /\ db[CHUNK_COLLECTION][c.key].data =
               [localEdvId |-> c.args.edvId, docId |-> c.args.docId,
                chunk |-> c.args.chunk]
          /\ \A k \in ChunkKeys \ {c.key} :
               db[CHUNK_COLLECTION][k] = c.pre[CHUNK_COLLECTION][k]
          /\ db[DOC_COLLECTION] = c.pre[DOC_COLLECTION]
     ELSE /\ c.result.kind = "InvalidStateError"
          /\ c.result.value =
               [expected |-> doc.sequence, actual |-> c.args.chunk.sequence]
          /\ db = c.pre

\* a chunk upsert whose sequence is not the stored document's sequence:
\* it was refused and nothing changed
C6_Witness ==
  LET c == call[1] IN
  /\ c.op = "chunks.upsert" /\ c.pc = "done"
  /\ IsLive(c.pre[DOC_COLLECTION][<<c.args.edvId, c.args.docId>>])
  /\ c.args.chunk.sequence
       # c.pre[DOC_COLLECTION][<<c.args.edvId, c.args.docId>>].data.doc.sequence
  /\ c.result.kind = "InvalidStateError"
  /\ db = c.pre

\* C7: secrets.decrypt of a configuration that secrets.generate produced for
\* password pw and cipher version cv, called with the same pw, returns keys
\* (not null, no error) whose cipherVersion is cv and whose ids are the
\* configuration's hmacId and keyAgreementKeyId.
C7_DecryptGenerated ==
  \A p \in Procs :
    LET c == call[p] IN
    (c.op = "secrets.decrypt" /\ c.pc = "done")
    => \A cv \in CipherVersions, nonce \in 1 .. MaxCalls :
         c.args.config = generate(c.args.config.id, c.args.password, cv, nonce).config
         => /\ c.result.kind = "ok"
            /\ c.result.value # Null
            /\ c.result.value.cipherVersion = cv
            /\ c.result.value.hmac.id = c.args.config.hmacId
            /\ c.result.value.keyAgreementKey.id = c.args.config.keyAgreementKeyId
            /\ c.result.value.hmac = generate(c.args.config.id, c.args.password, cv, nonce).hmac
            /\ c.result.value.keyAgreementKey =
                 generate(c.args.config.id, c.args.password, cv, nonce).keyAgreementKey

\* a fips secret decrypted with the password it was generated with
C7_Witness ==
  \E p \in Procs :
    /\ call[p].op = "secrets.decrypt"
    /\ call[p].pc = "done"
    /\ \E nonce \in 1 .. MaxCalls :
         call[p].args.config =
           generate(call[p].args.config.id, call[p].args.password, "fips", nonce).config
    /\ call[p].result.kind = "ok"
    /\ call[p].result.value # Null
    /\ call[p].result.value.cipherVersion = "fips"

\* C8: secrets.decrypt of a configuration that secrets.generate produced for
\* one password, called with a different password, returns null and does not
\* throw, for both cipher versions.
C8_DecryptWrongPassword ==
  \A p \in Procs :
    LET c == call[p] IN
    (c.op = "secrets.decrypt" /\ c.pc = "done")
    => \A pw \in Passwords \ {c.args.password}, cv \in CipherVersions,
          nonce \in 1 .. MaxCalls :
         c.args.config = generate(c.args.config.id, pw, cv, nonce).config
         => c.result = Value(Null)

\* a fips secret decrypted with another password than its own
C8_Witness ==
  \E p \in Procs :
    /\ call[p].op = "secrets.decrypt"
    /\ call[p].pc = "done"
    /\ \E pw \in Passwords \ {call[p].args.password}, nonce \in 1 .. MaxCalls :
         call[p].args.config =
           generate(call[p].args.config.id, pw, "fips", nonce).config
    /\ call[p].result = Value(Null)

\* C9: a transport find with an equals query that matches k documents of the
\* vault and carries limit m returns min(k, m) documents and hasMore = (k > m).
C9_FindLimit ==
  LET c == call[1] IN
  ( /\ c.op = "transport.find"
    /\ c.pc = "done"
    /\ c.args.query.type = "equals"
    /\ ~c.args.query.count )
  => LET m == c.args.query.limit
         matching ==
           {id \in DocKeys :
              /\ IsLive(c.pre[DOC_COLLECTION][id])
              /\ id[1] = c.args.edvId
              /\ \E e \in c.args.query.equals :
                   \A nv \in e :
                     \E a \in c.pre[DOC_COLLECTION][id].data.doc.indexed :
                       /\ a.hmac = c.args.query.index
                       /\ a.name = nv[1]
                       /\ a.value = nv[2]}
         k == Cardinality(matching) IN
     /\ c.result.kind = "ok"
     /\ "documents" \in DOMAIN c.result.value
     /\ Cardinality(c.result.value.documents) = IF k < m THEN k ELSE m
     /\ "hasMore" \in DOMAIN c.result.value
     /\ c.result.value.hasMore = (k > m)

\* C10: a transport update that would give a document a unique attribute
\* value another live document of the vault already holds as unique fails
\* with DuplicateError, both when the updated document is new and when it is
\* stored with the previous sequence.
C10_UpdateDuplicate ==
  LET c == call[1] IN
  ( /\ c.op = "transport.update"
    /\ c.pc = "done"
    /\ \/ c.pre[DOC_COLLECTION][c.key].rev = 0
       \/ /\ IsLive(c.pre[DOC_COLLECTION][c.key])
          /\ c.pre[DOC_COLLECTION][c.key].data.doc.sequence
               = c.args.doc.sequence - 1
    /\ \E other \in DocKeys \ {c.key} :
         /\ IsLive(c.pre[DOC_COLLECTION][other])
         /\ other[1] = c.key[1]
         /\ c.pre[DOC_COLLECTION][other].data.uniqueAttributes
              \cap c.doc.data.uniqueAttributes # {} )
  => c.result.kind = "DuplicateError"

\* C11: with callers interleaved in any order, a ConfigStorage.insert call
\* with a sequence other than 0 fails with Error("Configuration sequence must
\* be \"0\".") and writes nothing; with sequence 0 it settles successfully
\* exactly when, at the step that settles it, no configuration is stored under
\* config.id, and then the given configuration is stored there; when one is
\* stored it settles with ConstraintError and the stored configuration is as
\* it was.  A configuration comes to be stored only by such an insert.
C11_InsertOnce ==
  [][ /\ \A p \in Procs :
           LET c == call'[p] IN
           (c.op = "ConfigStorage.insert" /\ c.pc = "done" /\ call'[p] # call[p])
           => LET stored == db[c.coll][c.key] IN
              IF c.args.config.sequence # 0
              THEN /\ c.result = Err("Error", "Configuration sequence must be \"0\".")
                   /\ db' = db
              ELSE IF IsLive(stored)
              THEN /\ c.result.kind = "ConstraintError"
                   /\ c.result.message =
                        "Could not insert document; uniqueness constraint violation."
                   /\ db' = db
              ELSE /\ c.result.kind = "ok"
                   /\ db' = [db EXCEPT ![c.coll][c.key] =
                               [rev |-> stored.rev + 1, deleted |-> FALSE,
                                data |-> [config |-> c.args.config]]]
      /\ \A coll \in Storages, k \in ConfigKeys :
           (~IsLive(db[coll][k]) /\ IsLive(db'[coll][k]))
           => \E p \in Procs :
                /\ call[p].op = "ConfigStorage.insert"
                /\ call[p].pc = "insertOne.put"
                /\ call'[p].pc = "done"
                /\ call[p].coll = coll /\ call[p].key = k
                /\ call[p].args.config.sequence = 0
                /\ db'[coll][k].data.config = call[p].args.config ]_vars

\* two callers raced to insert one configuration id: both started while
\* nothing was stored, one stored it, the other was refused and the stored
\* configuration is the first one's
C11_Witness ==
  /\ call[1].op = "ConfigStorage.insert" /\ call[2].op = "ConfigStorage.insert"
  /\ call[1].pc = "done" /\ call[2].pc = "done"
  /\ call[1].coll = call[2].coll /\ call[1].key = call[2].key
  /\ call[1].pre[call[1].coll][call[1].key].rev = 0
  /\ call[2].pre[call[2].coll][call[2].key].rev = 0
  /\ call[1].result.kind = "ok"
  /\ call[2].result.kind = "ConstraintError"
  /\ db[call[1].coll][call[1].key].rev = 1
  /\ db[call[1].coll][call[1].key].data.config = call[1].args.config

\* C12: a get (ConfigStorage.get on the vault or the secret storage, docs.get,
\* chunks.get) of an id under which nothing is stored, or only a tombstone,
\* fails with NotFoundError and the message of its API ("Configuration not
\* found.", "Document not found.", "Document chunk not found."); a get of an
\* id stored and not deleted resolves with the stored record, _id and _rev
\* included, and when the last write of that id was an insert or upsert that
\* succeeded, the record is the one that call returned.  A get writes nothing.
C12_GetStored ==
  /\ [](LET c == call[2]
            w == call[1] IN
        (c.op \in {"ConfigStorage.get", "docs.get", "chunks.get"} /\ c.pc = "done")
        => LET stored == c.pre[c.coll][c.key]
               message ==
                 CASE c.op = "ConfigStorage.get" -> "Configuration not found."
                   [] c.op = "docs.get" -> "Document not found."
                   [] OTHER -> "Document chunk not found." IN
           IF IsLive(stored)
           THEN /\ c.result.kind = "ok"
                /\ c.result.value._id = c.key
                /\ c.result.value._rev = stored.rev
                /\ c.result.value.data = stored.data
                /\ ( /\ w.pc = "done" /\ w.result.kind = "ok"
                     /\ w.coll = c.coll /\ w.key = c.key
                     /\ w.result.value._rev = stored.rev )
                   => c.result.value = w.result.value
           ELSE c.result = Err("NotFoundError", message))
  /\ [][call[2].pc = "get.find" => db' = db]_vars

\* a document was inserted and then fetched: get resolved with the record the
\* insert had returned
C12_Witness ==
  /\ call[1].op = "docs.insert" /\ call[1].pc = "done"
  /\ call[1].result.kind = "ok"
  /\ call[2].op = "docs.get" /\ call[2].pc = "done"
  /\ call[2].key = call[1].key
  /\ IsLive(call[2].pre[DOC_COLLECTION][call[2].key])
  /\ call[2].result.kind = "ok"
  /\ call[2].result.value = call[1].result.value

\* C16: when docs.get follows the successful docs.insert of a document, the
\* record it resolves with has doc.sequence = 0.
C16_InsertedSequenceZero ==
  LET c == call[2]
      w == call[1] IN
  ( /\ c.op = "docs.get" /\ c.pc = "done"
    /\ w.op = "docs.insert" /\ w.pc = "done" /\ w.result.kind = "ok"
    /\ w.key = c.key
    /\ w.result.value._rev = c.pre[DOC_COLLECTION][c.key].rev )
  => /\ c.result.kind = "ok"
     /\ c.result.value.data.doc.sequence = 0

\* C17: docs.get({edvId, id}) resolves only with a live document stored under
\* that very vault and document id, and fails with NotFoundError when there
\* is none, whatever the other vaults hold; chunks.get({edvId, docId, index})
\* resolves only with a live chunk stored under that very vault, document and
\* index, and fails with NotFoundError when there is none.
C17_VaultScoped ==
  LET c == call[2] IN
  /\ (c.op = "docs.get" /\ c.pc = "done")
     => IF IsLive(c.pre[DOC_COLLECTION][<<c.args.edvId, c.args.id>>])
        THEN /\ c.result.kind = "ok"
             /\ c.result.value.data.localEdvId = c.args.edvId
             /\ c.result.value.data.doc.id = c.args.id
             /\ c.result.value.data =
                  c.pre[DOC_COLLECTION][<<c.args.edvId, c.args.id>>].data
        ELSE c.result = Err("NotFoundError", "Document not found.")
  /\ (c.op = "chunks.get" /\ c.pc = "done")
     => IF IsLive(c.pre[CHUNK_COLLECTION][<<c.args.edvId, c.args.docId, c.args.index>>])
        THEN /\ c.result.kind = "ok"
             /\ c.result.value.data.localEdvId = c.args.edvId
             /\ c.result.value.data.docId = c.args.docId
             /\ c.result.value.data.chunk.index = c.args.index
        ELSE c.result = Err("NotFoundError", "Document chunk not found.")

\* a chunk is stored for a document of one vault; chunks.get with the same
\* document id and index but the other vault's id found nothing
C17_Witness ==
  LET c == call[2] IN
  /\ c.op = "chunks.get" /\ c.pc = "done"
  /\ \E e \in EdvIds \ {c.args.edvId} :
       IsLive(c.pre[CHUNK_COLLECTION][<<e, c.args.docId, c.args.index>>])
  /\ c.result = Err("NotFoundError", "Document chunk not found.")

\* C13: a docs.insert or docs.upsert of a document that is not stored yet, and
\* whose unique attributes are held as unique by no live document of the
\* vault, succeeds whatever attributes not marked unique it shares with the
\* stored documents: the document is stored as given and every other record
\* is as it was.
C13_NonConflicting ==
  LET c == call[1] IN
  ( /\ c.op \in {"docs.insert", "docs.upsert"} /\ c.pc = "done"
    /\ ~IsLive(c.pre[DOC_COLLECTION][c.key])
    /\ \A k \in DocKeys \ {c.key} :
         (IsLive(c.pre[DOC_COLLECTION][k]) /\ k[1] = c.key[1])
         => c.pre[DOC_COLLECTION][k].data.uniqueAttributes
              \cap {<<a.hmac, a.name, a.value>> :
                      a \in {b \in c.args.doc.indexed : b.unique}} = {} )
  => /\ c.result.kind = "ok"
     /\ db[DOC_COLLECTION][c.key].rev = c.pre[DOC_COLLECTION][c.key].rev + 1
     /\ db[DOC_COLLECTION][c.key].deleted = c.args.deleted
     /\ db[DOC_COLLECTION][c.key].data.doc = c.args.doc
     /\ \A k \in DocKeys \ {c.key} :
          db[DOC_COLLECTION][k] = c.pre[DOC_COLLECTION][k]

\* a second document was upserted that shares a (name, value) not marked
\* unique with a stored document and differs from it in its unique
\* attribute: both are stored, the first unchanged
C13_Witness ==
  LET c == call[1] IN
  /\ c.op = "docs.upsert" /\ c.pc = "done"
  /\ c.pre[DOC_COLLECTION][c.key].rev = 0
  /\ c.doc.data.uniqueAttributes # {}
  /\ \E k \in DocKeys \ {c.key} :
       /\ IsLive(c.pre[DOC_COLLECTION][k])
       /\ k[1] = c.key[1]
       /\ c.pre[DOC_COLLECTION][k].data.uniqueAttributes # {}
       /\ c.pre[DOC_COLLECTION][k].data.uniqueAttributes
            \cap c.doc.data.uniqueAttributes = {}
       /\ c.pre[DOC_COLLECTION][k].data.attributes
            \cap c.doc.data.attributes # {}
       /\ db[DOC_COLLECTION][k] = c.pre[DOC_COLLECTION][k]
  /\ c.result.kind = "ok"
  /\ IsLive(db[DOC_COLLECTION][c.key])
  /\ db[DOC_COLLECTION][c.key].data.doc = c.args.doc

\* C14: createEdv called with a password and a configuration that has hmac or
\* keyAgreementKey fails with the Error "\"config\" must not have \"hmac\" or
\* \"keyAgreementKey\" if these are to be populated using locally generated
\* secrets." and stores neither a secret nor a vault configuration.
C14_PasswordAndKeys ==
  LET c == call[1] IN
  ( /\ c.op = "createEdv" /\ c.pc = "done"
    /\ c.args.password # undefined
    /\ (c.args.config.hmac # NoData \/ c.args.config.keyAgreementKey # NoData) )
  => /\ c.result =
          Err("Error", "\"config\" must not have \"hmac\" or \"keyAgreementKey\" if these are to be populated using locally generated secrets.")
     /\ db = c.pre

\* createEdv for a new vault id, with a password and a configuration that has
\* both keys: it failed, and nothing is stored under the id
C14_Witness ==
  LET c == call[1] IN
  /\ c.op = "createEdv" /\ c.pc = "done"
  /\ c.args.password = "pw"
  /\ c.args.config.hmac # NoData /\ c.args.config.keyAgreementKey # NoData
  /\ c.args.config.sequence = 0
  /\ c.result.kind = "Error"
  /\ db[SECRET_COLLECTION][c.key].rev = 0
  /\ db[CONFIG_COLLECTION][c.key].rev = 0

\* C15: fromLocalSecrets({edvId, password}) writes nothing and resolves with
\* a client exactly when a secret is stored for edvId, the password is the
\* one the secret was generated with, and a vault configuration is stored for
\* edvId; the client then carries the secret's keys.  It fails with
\* NotFoundError("Configuration not found.") when no secret is stored, with
\* Error("Invalid password.") when the password is another one, and with
\* NotFoundError("Configuration not found.") when only the vault
\* configuration is missing.
C15_FromLocalSecrets ==
  LET c == call[1] IN
  (c.op = "fromLocalSecrets" /\ c.pc = "done")
  => LET stored == c.pre[SECRET_COLLECTION][c.key]
         vault == c.pre[CONFIG_COLLECTION][c.key] IN
     /\ db = c.pre
     /\ IF ~IsLive(stored)
        THEN c.result = Err("NotFoundError", "Configuration not found.")
        ELSE \A pw \in Passwords, cv \in CipherVersions, nonce \in 1 .. MaxCalls :
               stored.data.config = generate(c.args.edvId, pw, cv, nonce).config
               => IF c.args.password # pw
                  THEN c.result = Err("Error", "Invalid password.")
                  ELSE IF ~IsLive(vault)
                  THEN c.result = Err("NotFoundError", "Configuration not found.")
                  ELSE /\ c.result.kind = "ok"
                       /\ c.result.value.id = c.args.edvId
                       /\ c.result.value.cipherVersion = cv
                       /\ c.result.value.hmac =
                            generate(c.args.edvId, pw, cv, nonce).hmac
                       /\ c.result.value.keyAgreementKey =
                            generate(c.args.edvId, pw, cv, nonce).keyAgreementKey

\* a secret is stored for a vault id but no vault configuration:
\* fromLocalSecrets with the secret's password failed with NotFoundError
C15_Witness ==
  LET c == call[1] IN
  /\ c.op = "fromLocalSecrets" /\ c.pc = "done"
  /\ IsLive(c.pre[SECRET_COLLECTION][c.key])
  /\ ~IsLive(c.pre[CONFIG_COLLECTION][c.key])
  /\ \E cv \in CipherVersions, nonce \in 1 .. MaxCalls :
       c.pre[SECRET_COLLECTION][c.key].data.config
         = generate(c.args.edvId, c.args.password, cv, nonce).config
  /\ c.result = Err("NotFoundError", "Configuration not found.")
  /\ db = c.pre

C20_DeleteTombstone ==
  LET c == call[1] IN
  (c.pc = "done" /\ c.result.kind = "ok")
  => /\ c.op = "client.delete" => db[DOC_COLLECTION][c.key].deleted
     /\ c.op = "transport.update" => ~db[DOC_COLLECTION][c.key].deleted

\* C19: whatever callers run initialize(), one after another or at the same
\* time, one database handle is constructed for each collection and every
\* caller shares it, and when a caller's `await initialize()` completes the
\* handle of each collection is set.
C19_OneSharedHandle ==
  /\ \A m \in ModuleNames : handles[m] <= 1
  /\ \A p \in Callers :
       loader[p].pc = "completed" => \A m \in ModuleNames : _client[m] # 0

\* C21: the configuration secrets.generate returns holds a
\* wrappedKeyAgreementKey if and only if it was called with cipherVersion
\* "fips"; and the keys secrets.decrypt returns carry cipherVersion "fips" when
\* the configuration holds a wrappedKeyAgreementKey and "recommended" when it
\* does not.
C21_WrappedIffFips ==
  \A p \in Procs :
    LET c == call[p] IN
    /\ (c.op = "secrets.generate" /\ c.pc = "done")
       => /\ c.result.kind = "ok"
          /\ (c.result.value.config.secret.wrappedKeyAgreementKey # NoData)
               <=> (c.args.cipherVersion = "fips")
    /\ (c.op = "secrets.decrypt" /\ c.pc = "done" /\ c.result.kind = "ok"
          /\ c.result.value # Null)
       => c.result.value.cipherVersion =
            IF c.args.config.secret.wrappedKeyAgreementKey # NoData
            THEN "fips" ELSE "recommended"

\* one caller has generated a fips secret, which holds a wrapped key
\* agreement key, and the other has decrypted a secret without one
C21_Witness ==
  \E p \in Procs, q \in Procs :
    /\ call[p].op = "secrets.generate"
    /\ call[p].pc = "done"
    /\ call[p].args.cipherVersion = "fips"
    /\ call[p].result.value.config.secret.wrappedKeyAgreementKey # NoData
    /\ call[q].op = "secrets.decrypt"
    /\ call[q].pc = "done"
    /\ call[q].result.kind = "ok"
    /\ call[q].result.value # Null
    /\ call[q].args.config.secret.wrappedKeyAgreementKey = NoData
    /\ call[q].result.value.cipherVersion = "recommended"

\* C22: insertOne goes on to its put only when none of its uniqueness
\* constraints, the caller's or the implicit _id one, matches a stored record;
\* when any of them matches, whatever its position, it fails with
\* ConstraintError instead.  (One caller: the records are those the check saw.)
C22_AnyConstraint ==
  LET c == call[1] IN
  c.pc = "insertOne.put"
  => \A i \in DOMAIN Constraints(c) : Find(db[c.coll], Constraints(c)[i]) = {}

\* C23: a docs.upsert of a stored document that carries the next sequence,
\* and whose unique attributes are held by no other live document of the
\* vault, succeeds: a uniqueness constraint that matches no record, or the
\* updated record alone, does not block the update.
C23_UpdateUnblocked ==
  LET c == call[1] IN
  ( /\ c.op = "docs.upsert"
    /\ c.pc = "done"
    /\ IsLive(c.pre[DOC_COLLECTION][c.key])
    /\ c.pre[DOC_COLLECTION][c.key].data.doc.sequence = c.args.doc.sequence - 1
    /\ \A k \in DocKeys \ {c.key} :
         (IsLive(c.pre[DOC_COLLECTION][k]) /\ k[1] = c.key[1])
         => c.pre[DOC_COLLECTION][k].data.uniqueAttributes
              \cap c.doc.data.uniqueAttributes = {} )
  => c.result.kind = "ok"

\* C24: a docs.upsert that does not succeed fails with InvalidStateError or
\* with ConstraintError and with no other kind of error: InvalidStateError
\* when the record that stood in the way is the stored record of the upserted
\* document itself, ConstraintError when it is another document.
C24_UpsertErrors ==
  LET c == call[1] IN
  (c.op = "docs.upsert" /\ c.pc = "done")
  => c.result.kind \in {"ok", "InvalidStateError", "ConstraintError"}

\* C25: with no other writer active, every docs.insert / docs.upsert call
\* that was started comes to an end, returning or throwing.
C25_Terminates == (call[1].pc # "done") ~> (call[1].pc = "done")

\* C26: when two docs.upsert calls for one stored document, both started
\* while its sequence was prev and both carrying prev + 1, have ended in
\* whatever interleaving, they have not both succeeded; if one succeeded the
\* other failed with InvalidStateError and the stored document is the
\* successful call's.
C26_OneUpsertWins ==
  LET a == call[1]
      b == call[2] IN
  ( /\ a.op = "docs.upsert" /\ b.op = "docs.upsert"
    /\ a.pc = "done" /\ b.pc = "done"
    /\ a.key = b.key
    /\ a.args.doc.sequence = b.args.doc.sequence
    /\ \A c \in {a, b} :
         /\ IsLive(c.pre[DOC_COLLECTION][c.key])
         /\ c.pre[DOC_COLLECTION][c.key].data.doc.sequence
              = c.args.doc.sequence - 1 )
  => /\ ~(a.result.kind = "ok" /\ b.result.kind = "ok")
     /\ a.result.kind = "ok"
          => /\ b.result.kind = "InvalidStateError"
             /\ db[DOC_COLLECTION][a.key].data = a.doc.data
     /\ b.result.kind = "ok"
          => /\ a.result.kind = "InvalidStateError"
             /\ db[DOC_COLLECTION][b.key].data = b.doc.data

\* C27: two insertOne calls for one _id under which nothing was stored (two
\* docs.insert of one document id, or two ConfigStorage.insert of one
\* configuration id), interleaved in whatever way, end with exactly one of
\* them successful, the other failed with ConstraintError, and the successful
\* call's record stored.
C27_OneInsertWins ==
  ( /\ call[1].op \in {"docs.insert", "ConfigStorage.insert"}
    /\ call[2].op = call[1].op
    /\ call[1].coll = call[2].coll
    /\ call[1].key = call[2].key
    /\ call[1].pre[call[1].coll][call[1].key].rev = 0
    /\ call[2].pre[call[2].coll][call[2].key].rev = 0 )
  ~> ( /\ call[1].pc = "done" /\ call[2].pc = "done"
       /\ \E p \in Procs :
            /\ call[p].result.kind = "ok"
            /\ call[3 - p].result.kind = "ConstraintError"
            /\ db[call[p].coll][call[p].key].data = call[p].doc.data )

\* C28: the uniqueness check of insertOne is not atomic with its write: the
\* put that follows a passed check stores the document whenever nothing was
\* ever stored under its _id, whatever unique attributes the live documents
\* hold by then.  (So two docs.insert calls for different ids that carry one
\* unique attribute can both pass the check and both succeed.)
C28_CheckThenWrite ==
  [][\A p \in Procs :
       LET c == call[p] IN
       ( /\ c.op = "docs.insert"
         /\ c.pc = "insertOne.put"
         /\ call'[p] # c
         /\ db[c.coll][c.doc._id].rev = 0 )
       => /\ call'[p].pc = "done"
          /\ call'[p].result.kind = "ok"
          /\ db'[c.coll][c.doc._id] =
               [rev |-> 1, deleted |-> FALSE, data |-> c.doc.data]]_vars

\* two docs.insert calls for different document ids of one vault, carrying
\* the same unique attribute, have both succeeded: two live documents share it
C28_Witness ==
  /\ call[1].op = "docs.insert" /\ call[2].op = "docs.insert"
  /\ call[1].pc = "done" /\ call[2].pc = "done"
  /\ call[1].result.kind = "ok" /\ call[2].result.kind = "ok"
  /\ call[1].key # call[2].key
  /\ call[1].key[1] = call[2].key[1]
  /\ call[1].doc.data.uniqueAttributes \cap call[2].doc.data.uniqueAttributes # {}
  /\ \A p \in Procs :
       /\ IsLive(db[DOC_COLLECTION][call[p].key])
       /\ db[DOC_COLLECTION][call[p].key].data = call[p].doc.data

\* C29: when two createEdv calls with one vault id, one password and
\* configurations of sequence 0 have ended, in whatever interleaving, they
\* have not both succeeded, and if one succeeded the other failed with
\* DuplicateError.  When nothing was stored for the id as they started, one
\* of them did succeed, and afterwards the id has one secret and one vault
\* configuration: the configuration the successful call returned, naming the
\* keys of the stored secret.
C29_OneEdvCreated ==
  LET a == call[1]
      b == call[2] IN
  ( /\ a.op = "createEdv" /\ b.op = "createEdv"
    /\ a.pc = "done" /\ b.pc = "done"
    /\ a.key = b.key
    /\ a.args.password = b.args.password
    /\ a.args.password # undefined
    /\ a.args.config.sequence = 0 /\ b.args.config.sequence = 0 )
  => /\ ~(a.result.kind = "ok" /\ b.result.kind = "ok")
     /\ a.result.kind = "ok" => b.result.kind = "DuplicateError"
     /\ b.result.kind = "ok" => a.result.kind = "DuplicateError"
     /\ (\A c \in {a, b}, coll \in Storages : c.pre[coll][c.key].rev = 0)
        => \E w \in {a, b} :
             /\ w.result.kind = "ok"
             /\ db[SECRET_COLLECTION][w.key].rev = 1
             /\ db[CONFIG_COLLECTION][w.key].rev = 1
             /\ db[CONFIG_COLLECTION][w.key].data.config = w.result.value.config
             /\ w.result.value.config.hmac.id
                  = db[SECRET_COLLECTION][w.key].data.config.hmacId
             /\ w.result.value.config.keyAgreementKey.id
                  = db[SECRET_COLLECTION][w.key].data.config.keyAgreementKeyId

\* both callers started on a fresh vault id; one stored the secret, the other
\* reused it, and the one that reused it lost the insert of the vault
\* configuration
C29_Witness ==
  \E p \in Procs :
    LET w == call[p]
        l == call[3 - p] IN
    /\ w.op = "createEdv" /\ l.op = "createEdv"
    /\ w.pc = "done" /\ l.pc = "done"
    /\ w.key = l.key
    /\ w.args.password = l.args.password
    /\ \A c \in {w, l}, coll \in Storages : c.pre[coll][c.key].rev = 0
    /\ w.result.kind = "ok"
    /\ l.result = Err("DuplicateError", "Duplicate error.")
    /\ l.local.hmac.id = db[SECRET_COLLECTION][w.key].data.config.hmacId
    /\ l.doc.data.config.hmac.id = w.result.value.config.hmac.id

\* C30: whenever a chunk record is written, its document is stored and
\* chunk.sequence is the sequence that document has at that moment, also when
\* docs.upsert calls for the document run between the requests of
\* chunks.upsert.
C30_ChunkOnPar ==
  [][\A k \in ChunkKeys :
       db'[CHUNK_COLLECTION][k] # db[CHUNK_COLLECTION][k]
       => LET stored == db[DOC_COLLECTION][<<k[1], k[2]>>] IN
          /\ IsLive(stored)
          /\ db'[CHUNK_COLLECTION][k].data.chunk.sequence
               = stored.data.doc.sequence]_vars

\* C31: two chunks.upsert calls that race for one (vault, document, index)
\* with a sequence on par with the document never fail: a call whose updateOne
\* has started settles with a record of that key, the loser of an insert race
\* gets back the revision stored at that moment, and the key holds one live
\* chunk record afterwards.
C31_ConcurrentChunkUpsert ==
  [][\A p \in Procs :
       /\ call[p].op = "chunks.upsert"
       /\ call[p].pc \notin {"done", "chunks.getDoc"}
       /\ call'[p].pc = "done"
       => LET res == call'[p].result
              stored == db'[CHUNK_COLLECTION][call[p].key] IN
          /\ res.kind = "ok"
          /\ IsLive(stored)
          /\ IF "_id" \in DOMAIN res.value
             THEN /\ res.value._id = call[p].key
                  /\ res.value._rev = stored.rev
                  /\ res.value.data = stored.data
             ELSE /\ res.value.id = call[p].key
                  /\ res.value.rev = stored.rev]_vars

\* both callers have stored the same chunk, and one of them was handed the
\* record the other had just written
C31_Witness ==
  /\ \A p \in Procs :
       /\ call[p].op = "chunks.upsert"
       /\ call[p].pc = "done"
       /\ call[p].result.kind = "ok"
       /\ call[p].key = ChunkId(Vault, "d1", 0)
  /\ \E p \in Procs : "id" \in DOMAIN call[p].result.value
  /\ IsLive(db[CHUNK_COLLECTION][ChunkId(Vault, "d1", 0)])

\* C32: whenever a vault id has both a stored secret and a stored vault
\* configuration, the configuration's hmac.id and keyAgreementKey.id are the
\* secret's hmacId and keyAgreementKeyId.
C32_ConfigRefersToSecret ==
  \A id \in EdvIds :
    LET secret == db[SECRET_COLLECTION][<<id>>]
        edv == db[CONFIG_COLLECTION][<<id>>] IN
    IsLive(secret) /\ IsLive(edv)
    => /\ edv.data.config.hmac.id = secret.data.config.hmacId
       /\ edv.data.config.keyAgreementKey.id = secret.data.config.keyAgreementKeyId

\* C33: the client createEdv returns when given a password, and the client
\* fromLocalSecrets returns, carry the cipher version of the stored secret whose
\* keys they hold.
C33_ClientCipherVersion ==
  LET c == call[1] IN
  /\ ( /\ c.op = "createEdv" /\ c.pc = "done" /\ c.result.kind = "ok"
       /\ c.args.password # undefined )
     => c.result.value.edvClient.cipherVersion
          = decrypt(db[SECRET_COLLECTION][c.key].data.config,
                    c.args.password).cipherVersion
  /\ ( c.op = "fromLocalSecrets" /\ c.pc = "done" /\ c.result.kind = "ok" )
     => c.result.value.cipherVersion
          = decrypt(db[SECRET_COLLECTION][c.key].data.config,
                    c.args.password).cipherVersion

\* C34: a write to the document store never lowers the doc.sequence stored
\* under a document's _id, tombstones included.
C34_SequenceNeverDecreases ==
  [][\A k \in DocKeys :
       db[DOC_COLLECTION][k].rev > 0 /\ db'[DOC_COLLECTION][k] # db[DOC_COLLECTION][k]
       => db'[DOC_COLLECTION][k].data.doc.sequence
            >= db[DOC_COLLECTION][k].data.doc.sequence]_vars

\* C35: at most one purge of the chunk collection is running, _purgeOp being
\* set exactly while it runs; a trigger (remove's _schedulePurge) that finds a
\* purge running starts no other, and one that finds none running, the last
\* one having succeeded or failed, starts one.
C35_OnePurgeInFlight ==
  [][/\ purges'.running \in {0, 1}
     /\ _purgeOp' <=> purges'.running = 1
     /\ \A p \in Procs :
          call[p].pc = "remove.schedule" /\ call'[p].pc = "done"
          => /\ purges'.running = 1
             /\ purges'.started
                  = IF purges.running = 1 THEN purges.started
                    ELSE purges.started + 1]_vars

\* remove has returned true while the purge scheduled by initialize was
\* still running: no second purge was started
C35_Witness ==
  /\ \E p \in Procs :
       /\ call[p].op = "chunks.remove"
       /\ call[p].pc = "done"
       /\ call[p].result = Value(TRUE)
  /\ purges = [running |-> 1, started |-> 1]
  /\ \E k \in ChunkKeys :
       db[CHUNK_COLLECTION][k].rev > 0 /\ db[CHUNK_COLLECTION][k].deleted

\* C36: when no purge fails and running purges get their turn, a chunk that
\* remove has tombstoned does not stay a tombstone: a purge deletes it (or it is
\* stored anew), also when remove ran while an earlier purge was running.
C36_TombstonePurged ==
  \A index \in 0 .. MaxIndex :
    LET k == ChunkId(Vault, "d1", index) IN
    (db[CHUNK_COLLECTION][k].rev > 0 /\ db[CHUNK_COLLECTION][k].deleted)
      ~> ~(db[CHUNK_COLLECTION][k].rev > 0 /\ db[CHUNK_COLLECTION][k].deleted)

\* a chunk was tombstoned while a purge was running, remove has returned,
\* and a purge has since deleted the tombstone
C36_Witness ==
  /\ \E p \in Procs :
       /\ call[p].op = "chunks.remove"
       /\ call[p].pc = "done"
       /\ call[p].result = Value(TRUE)
       /\ db[CHUNK_COLLECTION][call[p].key] = Absent
  /\ purges = [running |-> 0, started |-> 1]

C38_ChunkHasDocument ==
  \A k \in ChunkKeys :
    IsLive(db[CHUNK_COLLECTION][k]) => IsLive(db[DOC_COLLECTION][<<k[1], k[2]>>])

\* C39: transport.getChunk called right after a successful
\* transport.storeChunk of the same document and chunk index returns the chunk
\* that was stored.
C39_GetStoredChunk ==
  LET c == call[1] IN
  ( /\ c.op = "transport.getChunk" /\ c.pc = "done"
    /\ c.prev.op = "chunks.upsert" /\ c.prev.kind = "ok"
    /\ c.prev.key = c.key )
  => c.result = Value(c.pre[CHUNK_COLLECTION][c.key].data.chunk)

\* C40: after a successful docs.insert or docs.upsert the stored record's
\* attributes, attributeNames and uniqueAttributes are those of the doc.indexed
\* of that write and of nothing else: an entry for each indexed attribute, the
\* full entries of the attributes marked unique in uniqueAttributes, and no
\* array on the record when it would be empty.
C40_IndexRebuilt ==
  LET c == call[1] IN
  ( /\ c.op \in {"docs.insert", "docs.upsert"}
    /\ c.pc = "done" /\ c.result.kind = "ok" )
  => LET indexed == c.args.doc.indexed
         stored == db[DOC_COLLECTION][c.key].data
         marked == {a \in indexed : a.unique} IN
     /\ stored.doc = c.args.doc
     /\ stored.attributes = {<<a.hmac, a.name, a.value>> : a \in indexed}
     /\ stored.attributeNames = {<<a.hmac, a.name>> : a \in indexed}
     /\ stored.uniqueAttributes = {<<a.hmac, a.name, a.value>> : a \in marked}
     /\ "attributes" \in stored.has <=> indexed # {}
     /\ "attributeNames" \in stored.has <=> indexed # {}
     /\ "uniqueAttributes" \in stored.has <=> marked # {}

\* an upsert has replaced a version that had a unique attribute by a version
\* without indexed attributes
C40_Witness ==
  LET c == call[1] IN
  /\ c.op = "docs.upsert" /\ c.pc = "done" /\ c.result.kind = "ok"
  /\ IsLive(c.pre[DOC_COLLECTION][c.key])
  /\ c.pre[DOC_COLLECTION][c.key].data.uniqueAttributes # {}
  /\ c.args.doc.indexed = {}
  /\ db[DOC_COLLECTION][c.key].data.has = {}

====
